---- MODULE Spec2Model ----
(***************************************************************************)
(* Broadcast delivery and scheduling engine of arctic-bot.                 *)
(*                                                                         *)
(* State: the users and broadcasts collections (MongoDB), the in-memory    *)
(* pending_approvals ledger, the clock, and the position and locals of     *)
(* every coroutine that can be inside send_broadcast: the scheduler's      *)
(* check_scheduled_broadcasts (two instances, so that a tick can start     *)
(* while an earlier one is still sending) and the administrator's          *)
(* process_broadcast_confirmation.  Every await of the source is a point   *)
(* where the other coroutines can run; one action is the code between two  *)
(* such points that matter.  Time is counted in hours.                     *)
(***************************************************************************)
EXTENDS Integers, Sequences, FiniteSets, TLC

\* ---------------------------------------------------------------- bounds
NumUsers == 2        \* documents in the users collection
MaxBroadcasts == 2   \* documents ever inserted into the broadcasts collection
MaxNow == 1          \* the clock runs from 0 to MaxNow (hours)
MaxFaults == 1       \* storage operations the environment lets fail
MaxCrashes == 1      \* process restarts
MaxTotal == 5001     \* largest recipient total the batch parameters are computed for
LateHour == 21       \* an evening hour (Moscow time) an admin schedules for
MaxCivil == 50       \* latest civil time (hours) handed to schedule_broadcast
BootNow == 16        \* the hour (UTC) at which a process with a filled store boots
MaxLate == 17        \* the clock of that process runs from BootNow to MaxLate
MaxStore == 2001     \* largest users collection the report exporter pages through
Near == 10           \* collection sizes are taken this close to a multiple of the page size
MaxStamp == 2        \* latest timestamp (hours) of a ledger entry of a long-running process
MaxList == 4         \* longest resolved list the batch loop is followed through
SmallBatch == 2      \* a batch_size small enough to split such a list
ShortWait == 1       \* a short RetryAfter.timeout (seconds)

\* -------------------------------------------------------- program constants
MoscowOffset == 3    \* Europe/Moscow is UTC+3
LegacyHour == 14     \* migrate_old_broadcasts: hour > 14 is taken for local time
RetryWait == 5       \* a RetryAfter.timeout the platform signals (seconds)
DEFAULT_BATCH_SIZE == 25
DEFAULT_BATCH_DELAY == 3
UsersBatchSize == 1000   \* statistics.py: batch_size of the users paging loop
WeekHours == 168     \* clean_old_pending_approvals: timedelta(days=7), in hours

Ticks == {"tick1", "tick2"}
Admins == {"admin"}
Runs == Ticks \cup Admins

Absent == "-"
Sources == {"A", "B"}

\* the five recipient-unreachable exception classes of the except clause
Unreachable ==
    {"BotBlocked", "UserDeactivated", "ChatNotFound", "Unauthorized",
     "CantInitiateConversation"}
ErrorKinds == Unreachable \cup {"TelegramAPIError", "TimeoutError", "PyMongoError"}

\* what one bot.send_* call can do
SendResults == {"ok", "RetryAfter", "BotBlocked", "TelegramAPIError", "TimeoutError"}

VARIABLES
    now,                \* datetime.utcnow(), in hours
    users,              \* users collection, in insertion order
    pending_approvals,  \* join_request_handlers.pending_approvals: user_id -> timestamp
    broadcasts,         \* broadcasts collection; _id is the index
    run,                \* locals of each coroutine
    delivered,          \* platform side: messages of broadcast b received by user u
    dispatched,         \* send_broadcast calls the scheduler made for record b
    faults,             \* storage failures so far
    crashes,            \* restarts so far
    boot,               \* on_startup: "starting", "first_check", "running"
    probe               \* one call of a helper under study: its arguments and result

vars ==
    <<now, users, pending_approvals, broadcasts, run, delivered, dispatched,
      faults, crashes, boot, probe>>

\* ---------------------------------------------------------------- filters
\* A target_filter dict over the keys the admin flows use; Absent = key not in
\* the dict.  None and {} are both the filter with no key (both are falsy).
NoFilter == [source |-> Absent, status |-> Absent]

Truthy(target_filter) ==
    target_filter.source # Absent \/ target_filter.status # Absent

\* mutant: status=active is written over the filter's own status
CombinedFilterForced(target_filter) == [target_filter EXCEPT !.status = "active"]

\* combined_filter: status=active is added when the filter has no status key
CombinedFilter(target_filter) ==
    IF target_filter.status = Absent
    THEN [target_filter EXCEPT !.status = "active"]
    ELSE target_filter

Matches(user, filter_query) ==
    /\ filter_query.source = Absent \/ user.source = filter_query.source
    /\ filter_query.status = Absent \/ user.status = filter_query.status

get_users_by_filter(store, filter_query) ==
    SelectSeq(store, LAMBDA user: Matches(user, filter_query))

\* mutant: the status argument is ignored
get_all_users_any_status(store, status) == store

get_all_users(store, status) ==
    SelectSeq(store, LAMBDA user: user.status = status)

\* send_broadcast's recipient resolution
ResolveUsers(store, target_filter) ==
    IF Truthy(target_filter)
    THEN get_users_by_filter(store, CombinedFilter(target_filter))
    ELSE get_all_users(store, "active")

UserIds(docs) == [i \in 1..Len(docs) |-> docs[i].user_id]

\* mutant: send_broadcast goes on with an empty recipient list
NoUsersNever(found) == FALSE

\* send_broadcast: "if not users", the return of the all-zero statistics
NoUsers(found) == found = <<>>

\* ------------------------------------------------------------ time helpers
Hour(t) == t % 24

\* mutant: the time is stored as it was typed
ToUTCKept(t) == t

\* naive Europe/Moscow civil time -> naive UTC
ToUTC(t) == t - MoscowOffset

\* A datetime object: its civil reading in hours and its tzinfo ("None" for a
\* datetime without zone information).
Naive(t) == [t |-> t, tzinfo |-> "None"]

\* schedule_broadcast: a datetime without tzinfo is localized as Europe/Moscow,
\* converted to UTC and stripped of its tzinfo; any other is left as given
NormalizeScheduleTime(schedule_time) ==
    IF schedule_time.tzinfo = "None"
    THEN Naive(ToUTC(schedule_time.t))
    ELSE schedule_time

\* mutant: every schedule time is taken for local time
MigrateTimeAlways(schedule_time) == ToUTC(schedule_time)

MigrateTime(schedule_time) ==
    IF Hour(schedule_time) > LegacyHour THEN ToUTC(schedule_time) ELSE schedule_time

\* mutant: the update also resets the recipient total
MigrateRecordResetting(b) ==
    IF b.status = "scheduled" /\ b.schedule_time >= 0
    THEN [b EXCEPT !.schedule_time = MigrateTime(@), !.total_users = 0]
    ELSE b

MigrateRecord(b) ==
    IF b.status = "scheduled" /\ b.schedule_time >= 0
    THEN [b EXCEPT !.schedule_time = MigrateTime(@)]
    ELSE b

migrate_old_broadcasts(coll) == [i \in 1..Len(coll) |-> MigrateRecord(coll[i])]

\* --------------------------------------------------- send_broadcast, one user
NoErrors == [k \in ErrorKinds |-> 0]

Tally(errors_by_type, kind) == [errors_by_type EXCEPT ![kind] = @ + 1]

\* What the environment does to one recipient: the first send's result, the
\* retry's result after a RetryAfter, and whether the first and the second
\* counter write of this recipient fail (a write exists only when save_to_db).
Outcomes ==
    {out \in [send : SendResults, retry : SendResults, w1 : BOOLEAN, w2 : BOOLEAN] :
        /\ out.send # "RetryAfter" => out.retry = "ok"   \* no retry: field unused
        /\ ~out.w1 => ~out.w2}                           \* no second write alone

\* The result of handling one recipient: the new locals, the $inc written to the
\* record, the messages delivered, the sends attempted, the rate-limit sleep
\* taken, whether an exception leaves send_broadcast, storage failures used.
Handled(st, inc_sent, inc_failed, got, tries, slept, raised, nfaults) ==
    [sent_count |-> st.sent_count, failed_count |-> st.failed_count,
     errors_by_type |-> st.errors_by_type,
     inc_sent |-> inc_sent, inc_failed |-> inc_failed, delivered |-> got,
     attempts |-> tries, slept |-> slept, raised |-> raised, faults |-> nfaults]

\* the "$inc failed_count" every except clause ends with; a failure of this
\* write is raised inside the handler and leaves send_broadcast
WriteFailed(save_to_db, st, wfail, got, tries, slept, nfaults) ==
    IF save_to_db /\ wfail
    THEN Handled(st, 0, 0, got, tries, slept, TRUE, nfaults + 1)
    ELSE Handled(st, 0, IF save_to_db THEN 1 ELSE 0, got, tries, slept, FALSE, nfaults)

\* mutant: the handler counts the failure but leaves out the "$inc failed_count"
OnUnreachableUnwritten(save_to_db, st, kind, wfail, got, nfaults) ==
    Handled([st EXCEPT !.errors_by_type = Tally(@, kind), !.failed_count = @ + 1],
            0, 0, got, 1, 0, FALSE, nfaults)

\* except (BotBlocked, UserDeactivated, ChatNotFound, Unauthorized,
\*         CantInitiateConversation)
OnUnreachable(save_to_db, st, kind, wfail, got, nfaults) ==
    WriteFailed(save_to_db,
                [st EXCEPT !.errors_by_type = Tally(@, kind), !.failed_count = @ + 1],
                wfail, got, 1, 0, nfaults)

\* mutant: the handler re-raises, so the error leaves send_broadcast
OnTelegramAPIErrorRaises(save_to_db, st, wfail, got, nfaults) ==
    Handled([st EXCEPT !.errors_by_type = Tally(@, "TelegramAPIError"),
                       !.failed_count = @ + 1],
            0, 0, got, 1, 0, TRUE, nfaults)

\* except TelegramAPIError (followed by a one second pause)
OnTelegramAPIError(save_to_db, st, wfail, got, nfaults) ==
    WriteFailed(save_to_db,
                [st EXCEPT !.errors_by_type = Tally(@, "TelegramAPIError"),
                           !.failed_count = @ + 1],
                wfail, got, 1, 0, nfaults)

\* except Exception
OnException(save_to_db, st, kind, wfail, got, nfaults) ==
    WriteFailed(save_to_db,
                [st EXCEPT !.errors_by_type = Tally(@, kind), !.failed_count = @ + 1],
                wfail, got, 1, 0, nfaults)

\* the try body after a send that returned: sent_count += 1, "$inc sent_count";
\* a failure of that write is caught by "except Exception"
OnSent(save_to_db, st, out) ==
    LET s1 == [st EXCEPT !.sent_count = @ + 1] IN
    IF save_to_db /\ out.w1
    THEN OnException(save_to_db, s1, "PyMongoError", out.w2, 1, 1)
    ELSE Handled(s1, IF save_to_db THEN 1 ELSE 0, 0, 1, 1, 0, FALSE, 0)

\* mutant: a failed retry is logged but not counted
OnRetryAfterUncounted(save_to_db, st, out) ==
    IF out.retry = "ok"
    THEN Handled([st EXCEPT !.sent_count = @ + 1],
                 IF save_to_db THEN 1 ELSE 0, 0, 1, 2, RetryWait, FALSE, 0)
    ELSE Handled(st, 0, 0, 0, 2, RetryWait, FALSE, 0)

\* except RetryAfter: sleep(e.timeout), one retry; the inner "except Exception"
\* counts a failed retry (and a failed counter write after a good retry)
OnRetryAfter(save_to_db, st, out) ==
    IF out.retry = "ok"
    THEN LET s1 == [st EXCEPT !.sent_count = @ + 1] IN
         IF save_to_db /\ out.w1
         THEN WriteFailed(save_to_db, [s1 EXCEPT !.failed_count = @ + 1],
                          out.w2, 1, 2, RetryWait, 1)
         ELSE Handled(s1, IF save_to_db THEN 1 ELSE 0, 0, 1, 2, RetryWait, FALSE, 0)
    ELSE WriteFailed(save_to_db, [st EXCEPT !.failed_count = @ + 1],
                     out.w1, 0, 2, RetryWait, 0)

\* the body of "for user in current_batch"
SendToUser(save_to_db, st, user_id, out) ==
    IF user_id = 0
    THEN Handled([st EXCEPT !.failed_count = @ + 1], 0, 0, 0, 0, 0, FALSE, 0)
    ELSE IF out.send = "ok" THEN OnSent(save_to_db, st, out)
    ELSE IF out.send = "RetryAfter" THEN OnRetryAfter(save_to_db, st, out)
    ELSE IF out.send \in Unreachable
         THEN OnUnreachable(save_to_db, st, out.send, out.w1, 0, 0)
    ELSE IF out.send = "TelegramAPIError"
         THEN OnTelegramAPIError(save_to_db, st, out.w1, 0, 0)
    ELSE OnException(save_to_db, st, out.send, out.w1, 0, 0)

\* ------------------------------------------------------- broadcast records
\* A document of the broadcasts collection.  errors is the per-kind tally the
\* document holds: no insert and no update of the program has an errors key,
\* so it is the empty tally in every document.  scheduled_for is history, not
\* a key of the document: the schedule_time the record was inserted with.
NoTime == -1

\* send_broadcast's insert_one (save_to_db)
ImmediateRecord(target_filter, n) ==
    [status |-> "in_progress", schedule_time |-> NoTime,
     target_filter |-> target_filter, total_users |-> n,
     sent_count |-> 0, failed_count |-> 0, error |-> FALSE, completed_at |-> FALSE,
     errors |-> NoErrors, scheduled_for |-> NoTime]

\* schedule_broadcast's insert_one
ScheduledRecord(combined_filter, schedule_time, n) ==
    [status |-> "scheduled", schedule_time |-> schedule_time,
     target_filter |-> combined_filter, total_users |-> n,
     sent_count |-> 0, failed_count |-> 0, error |-> FALSE, completed_at |-> FALSE,
     errors |-> NoErrors, scheduled_for |-> schedule_time]

Ids(coll) == 1..Len(coll)

\* mutant: the due query does not look at the status
IsDueAnyStatus(b, t) == b.schedule_time # NoTime /\ b.schedule_time <= t

\* find({"status": "scheduled", "schedule_time": {"$lte": now}}): the documents
\* as they are when the query runs
IsDue(b, t) == b.status = "scheduled" /\ b.schedule_time # NoTime /\ b.schedule_time <= t

RECURSIVE DueFrom(_, _, _)
DueFrom(coll, t, i) ==
    IF i > Len(coll) THEN <<>>
    ELSE IF IsDue(coll[i], t)
         THEN <<[id |-> i, target_filter |-> coll[i].target_filter,
                 total_users |-> coll[i].total_users]>> \o DueFrom(coll, t, i + 1)
         ELSE DueFrom(coll, t, i + 1)

FindDue(coll, t) == DueFrom(coll, t, 1)

\* ------------------------------------------------------------- coroutines
IdleRun ==
    [pc |-> "idle", scheduled_broadcasts |-> <<>>, broadcast |-> 0,
     broadcast_id |-> 0, save_to_db |-> FALSE, users |-> <<>>, done |-> 0,
     sent_count |-> 0, failed_count |-> 0, errors_by_type |-> NoErrors,
     attempts |-> 0, slept |-> 0]

\* the record a run's messages belong to
RecordOf(r) == IF r.save_to_db THEN r.broadcast_id ELSE r.broadcast

\* the i-th document of the users collection
UserDoc(i) ==
    [user_id |-> i,
     status |-> IF i % 2 = 1 THEN "active" ELSE "pending",
     source |-> IF i <= 2 THEN "A" ELSE "B",
     activated_at |-> i % 2 = 1]

InitUsers == [i \in 1..NumUsers |-> UserDoc(i)]

\* the ledger of a process that received the join requests of the pending
\* users when it started
InitPending ==
    [i \in {j \in 1..NumUsers : InitUsers[j].status = "pending"} |-> 0]

\* del pending_approvals[user_id]
DelEntry(ledger, user_id) ==
    [k \in DOMAIN ledger \ {user_id} |-> ledger[k]]

\* the position of the first document with the user_id, 0 when there is none
FirstOf(store, user_id) ==
    IF \E i \in 1..Len(store) : store[i].user_id = user_id
    THEN CHOOSE i \in 1..Len(store) :
            /\ store[i].user_id = user_id
            /\ \A j \in 1..(i - 1) : store[j].user_id # user_id
    ELSE 0

\* update_user(user_id, {"status": "active", ...}): activated_at is set with it
\* update_one changes the first document that matches
Activate(store, user_id) ==
    [i \in 1..Len(store) |->
        IF i = FirstOf(store, user_id)
        THEN [store[i] EXCEPT !.status = "active", !.activated_at = TRUE]
        ELSE store[i]]

\* no helper call is under study in the running program
NoProbe ==
    [fn |-> "none", done |-> FALSE, total |-> 0, target_filter |-> NoFilter,
     batch_size |-> 0, batch_delay |-> 0, combined_filter |-> NoFilter,
     caller_filter |-> NoFilter, found |-> <<>>,
     schedule_time |-> Naive(0), stored |-> Naive(0),
     user_id |-> 0, returned |-> FALSE, platform |-> FALSE,
     total_pending |-> 0, cleaned |-> 0,
     status |-> Absent, skip |-> 0, all_users |-> <<>>, counts |-> <<>>,
     save_to_db |-> FALSE, batch_index |-> 0, handled |-> 0, delay |-> 0,
     log |-> <<>>, raised |-> FALSE,
     approvals |-> [u \in 1..(NumUsers + 1) |-> 0]]

Init ==
    /\ probe = NoProbe
    /\ now = 0
    /\ users = InitUsers
    /\ pending_approvals = InitPending
    /\ broadcasts = <<>>
    /\ run = [r \in Runs |-> IdleRun]
    /\ delivered = [b \in 1..MaxBroadcasts |-> [u \in 1..NumUsers |-> 0]]
    /\ dispatched = [b \in 1..MaxBroadcasts |-> 0]
    /\ faults = 0
    /\ crashes = 0
    /\ boot = "starting"

\* ----------------------------------------------------------------- helpers
SetRun(r, v) == [run EXCEPT ![r] = v]

SetRecord(coll, id, v) == [coll EXCEPT ![id] = v]

\* mutant: the tick normalises the filter but does not write the status
ClaimedUnmarked(b, target_filter) == [b EXCEPT !.target_filter = target_filter]

\* the scheduler's writes to a record
Claimed(b, target_filter) ==
    [b EXCEPT !.target_filter = target_filter, !.status = "in_progress"]

\* mutant: the completion write also sets total_users to the number attempted
CompletedRecounting(b, sent, failed) ==
    [b EXCEPT !.status = "completed", !.completed_at = TRUE,
              !.sent_count = sent, !.failed_count = failed,
              !.total_users = sent + failed]

Completed(b, sent, failed) ==
    [b EXCEPT !.status = "completed", !.completed_at = TRUE,
              !.sent_count = sent, !.failed_count = failed]

Errored(b) == [b EXCEPT !.status = "error", !.error = TRUE]

\* send_broadcast's final write (save_to_db)
CompletedImmediate(b) == [b EXCEPT !.status = "completed", !.completed_at = TRUE]

\* mutant: the tick stops after a document of its list
EndOfTick(r) == IdleRun

\* "for broadcast in scheduled_broadcasts": on to the next document of the list
\* this tick fetched, or the end of check_scheduled_broadcasts
NextInList(r) ==
    IF Len(r.scheduled_broadcasts) > 1
    THEN [IdleRun EXCEPT !.pc = "loop",
                         !.scheduled_broadcasts = Tail(r.scheduled_broadcasts)]
    ELSE IdleRun

\* on_startup goes on (polling starts, the job is registered) when its own call
\* of check_scheduled_broadcasts has returned
BootAfter(newrun) ==
    IF boot = "first_check" /\ newrun.pc = "idle" THEN "running" ELSE boot

\* --------------------------------------------------------------- environment
AdvanceTime ==
    /\ now < MaxNow
    /\ now' = now + 1
    /\ UNCHANGED <<probe, users, pending_approvals, broadcasts, run, delivered,
                   dispatched, faults, crashes, boot>>

\* the clock of a process that boots at BootNow
AdvanceLate ==
    /\ now >= BootNow
    /\ now < MaxLate
    /\ now' = now + 1
    /\ UNCHANGED <<probe, users, pending_approvals, broadcasts, run, delivered,
                   dispatched, faults, crashes, boot>>

\* the process dies and is started again: memory is lost, the store is kept
Crash ==
    /\ crashes < MaxCrashes
    /\ crashes' = crashes + 1
    /\ run' = [r \in Runs |-> IdleRun]
    /\ pending_approvals' = <<>>
    /\ boot' = "starting"
    /\ UNCHANGED <<probe, now, users, broadcasts, delivered, dispatched, faults>>

\* approve_join_request, for a user with a ledger entry and a stored document,
\* when no call fails: the one path of the function that changes the stores
ApproveJoinRequest(user_id) ==
    /\ boot = "running"
    /\ user_id \in DOMAIN pending_approvals
    /\ \E i \in 1..Len(users) : users[i].user_id = user_id
    /\ users' = Activate(users, user_id)
    /\ pending_approvals' = DelEntry(pending_approvals, user_id)
    /\ UNCHANGED <<probe, now, broadcasts, run, delivered, dispatched, faults, crashes, boot>>

\* ------------------------------------------------------------ admin handlers
AdminFilters == {NoFilter} \cup {[source |-> s, status |-> Absent] : s \in Sources}

\* process_schedule_time + process_schedule_confirmation + schedule_broadcast:
\* schedule_time is the naive Moscow time the admin typed, accepted when it is
\* later than the current Moscow time
ScheduleBroadcast(target_filter, schedule_time) ==
    /\ boot = "running"
    /\ Len(broadcasts) < MaxBroadcasts
    /\ schedule_time > now + MoscowOffset
    /\ LET combined_filter == CombinedFilter(target_filter)
           total_users == Len(get_users_by_filter(users, combined_filter))
       IN broadcasts' = Append(broadcasts,
              ScheduledRecord(combined_filter, ToUTC(schedule_time), total_users))
    /\ UNCHANGED <<probe, now, users, pending_approvals, run, delivered, dispatched,
                   faults, crashes, boot>>

\* process_broadcast_confirmation up to the first recipient: send_broadcast
\* resolves the recipients and inserts the record.  fault: which storage call
\* raises ("resolver", "insert"); the exception then leaves the handler.
AdminStart(a, target_filter, fault) ==
    /\ boot = "running"
    /\ run[a].pc = "idle"
    /\ IF fault # "none"
       THEN /\ faults < MaxFaults
            /\ faults' = faults + 1
            /\ UNCHANGED <<broadcasts, run>>
       ELSE LET found == UserIds(ResolveUsers(users, target_filter)) IN
            /\ UNCHANGED faults
            /\ IF NoUsers(found)
               THEN UNCHANGED <<broadcasts, run>>
               ELSE /\ Len(broadcasts) < MaxBroadcasts
                    /\ broadcasts' = Append(broadcasts,
                           ImmediateRecord(target_filter, Len(found)))
                    /\ run' = SetRun(a, [IdleRun EXCEPT
                           !.pc = "send", !.save_to_db = TRUE,
                           !.broadcast_id = Len(broadcasts) + 1, !.users = found])
    /\ UNCHANGED <<probe, now, users, pending_approvals, delivered, dispatched, crashes, boot>>

\* the end of send_broadcast with save_to_db: status completed; a failure of
\* this write leaves the handler with the record as it is
AdminFinish(a, fault) ==
    /\ a \in Admins
    /\ run[a].pc = "send"
    /\ run[a].done = Len(run[a].users)
    /\ IF fault
       THEN /\ faults < MaxFaults
            /\ faults' = faults + 1
            /\ UNCHANGED broadcasts
       ELSE /\ UNCHANGED faults
            /\ broadcasts' = SetRecord(broadcasts, run[a].broadcast_id,
                   CompletedImmediate(broadcasts[run[a].broadcast_id]))
    /\ run' = SetRun(a, IdleRun)
    /\ UNCHANGED <<probe, now, users, pending_approvals, delivered, dispatched, crashes, boot>>

\* ------------------------------------------------------------------ scheduler
\* mutant: the first check reads the store as it was before the migration
FirstCheckBeforeMigration(coll, t) == FindDue(coll, t)

\* on_startup: "await migrate_old_broadcasts()" and then the due query of
\* "await check_scheduled_broadcasts(bot)"
FirstCheck(coll, t) == FindDue(migrate_old_broadcasts(coll), t)

\* on_startup: migrate_old_broadcasts, then check_scheduled_broadcasts up to its
\* due query.  Nothing else runs until that call has returned.
Startup ==
    /\ boot = "starting"
    /\ LET migrated == migrate_old_broadcasts(broadcasts)
           due == FirstCheck(broadcasts, now)
       IN /\ broadcasts' = migrated
          /\ IF due = <<>>
             THEN /\ boot' = "running"
                  /\ UNCHANGED run
             ELSE /\ boot' = "first_check"
                  /\ run' = SetRun("tick1",
                         [IdleRun EXCEPT !.pc = "loop", !.scheduled_broadcasts = due])
    /\ UNCHANGED <<probe, now, users, pending_approvals, delivered, dispatched, faults, crashes>>

\* The interval job: check_scheduled_broadcasts up to its due query (an empty
\* list returns at once).  The job fires once a minute, so an instance starts
\* beside another one only when that one is inside the send loop, the one part
\* of a tick that lasts minutes.
TickStart(t) ==
    /\ boot = "running"
    /\ run[t].pc = "idle"
    /\ \A o \in Ticks :
          run[o].pc = "idle" \/ (run[o].pc = "send" /\ run[o].users # <<>>)
    /\ LET due == FindDue(broadcasts, now) IN
       /\ due # <<>>
       /\ run' = SetRun(t, [IdleRun EXCEPT !.pc = "loop", !.scheduled_broadcasts = due])
    /\ UNCHANGED <<probe, now, users, pending_approvals, broadcasts, delivered, dispatched,
                   faults, crashes, boot>>

\* One turn of "for broadcast in scheduled_broadcasts" up to the call of
\* send_broadcast: the filter normalisation and the status write.  fault: the
\* status write raises and the outer except ends the tick.
Claim(t, fault) ==
    /\ run[t].pc = "loop"
    /\ LET r == run[t]
           broadcast == Head(r.scheduled_broadcasts)
           id == broadcast.id
           target_filter == CombinedFilter(broadcast.target_filter)
       IN IF fault
          THEN /\ faults < MaxFaults
               /\ faults' = faults + 1
               /\ broadcasts' = SetRecord(broadcasts, id,
                      [broadcasts[id] EXCEPT !.target_filter = target_filter])
               /\ run' = SetRun(t, IdleRun)
               /\ boot' = BootAfter(IdleRun)
          ELSE /\ UNCHANGED <<faults, boot>>
               /\ broadcasts' = SetRecord(broadcasts, id,
                      Claimed(broadcasts[id], target_filter))
               /\ run' = SetRun(t, [r EXCEPT !.pc = "claimed", !.broadcast = id])
    /\ UNCHANGED <<probe, now, users, pending_approvals, delivered, dispatched, crashes>>

\* The call of send_broadcast(save_to_db=False) up to the first recipient: the
\* recipients are resolved with the record's filter.  fault 1: the resolver
\* raises, and the except clause of the scheduler sets the record to error;
\* fault 2: that write raises too and the outer except ends the tick.
Dispatch(t, fault) ==
    /\ run[t].pc = "claimed"
    /\ faults + fault <= MaxFaults
    /\ faults' = faults + fault
    /\ LET r == run[t]
           id == r.broadcast
           target_filter == CombinedFilter(Head(r.scheduled_broadcasts).target_filter)
           found == UserIds(ResolveUsers(users, target_filter))
           after == IF fault = 2 THEN IdleRun ELSE NextInList(r)
       IN /\ dispatched' = [dispatched EXCEPT ![id] = @ + 1]
          /\ IF fault > 0
             THEN /\ broadcasts' = IF fault = 1
                                   THEN SetRecord(broadcasts, id, Errored(broadcasts[id]))
                                   ELSE broadcasts
                  /\ run' = SetRun(t, after)
                  /\ boot' = BootAfter(after)
             ELSE /\ UNCHANGED <<boot, broadcasts>>
                  /\ run' = SetRun(t, [r EXCEPT !.pc = "send", !.save_to_db = FALSE,
                         !.users = found, !.done = 0])
    /\ UNCHANGED <<probe, now, users, pending_approvals, delivered, crashes>>

\* send_broadcast has returned its statistics to the scheduler.  fault 1: the
\* completed write raises and the except clause writes error; fault 2: that
\* write raises too and the outer except ends the tick.
TickFinish(t, fault) ==
    /\ t \in Ticks
    /\ run[t].pc = "send"
    /\ run[t].done = Len(run[t].users)
    /\ faults + fault <= MaxFaults
    /\ faults' = faults + fault
    /\ LET r == run[t]
           id == r.broadcast
           after == IF fault = 2 THEN IdleRun ELSE NextInList(r)
       IN /\ broadcasts' =
                 IF fault = 0
                 THEN SetRecord(broadcasts, id,
                          Completed(broadcasts[id], r.sent_count, r.failed_count))
                 ELSE IF fault = 1
                      THEN SetRecord(broadcasts, id, Errored(broadcasts[id]))
                      ELSE broadcasts
          /\ run' = SetRun(t, after)
          /\ boot' = BootAfter(after)
    /\ UNCHANGED <<probe, now, users, pending_approvals, delivered, dispatched, crashes>>

\* ------------------------------------------------------------------ send loop
\* one recipient of the loop of send_broadcast, for any caller
SendOne(r, out) ==
    /\ run[r].pc = "send"
    /\ run[r].done < Len(run[r].users)
    /\ LET rr == run[r]
           user_id == rr.users[rr.done + 1]
           res == SendToUser(rr.save_to_db, rr, user_id, out)
           id == RecordOf(rr)
           counted == IF rr.save_to_db
                      THEN SetRecord(broadcasts, id,
                               [broadcasts[id] EXCEPT
                                   !.sent_count = @ + res.inc_sent,
                                   !.failed_count = @ + res.inc_failed])
                      ELSE broadcasts
           after == IF r \in Ticks THEN NextInList(rr) ELSE IdleRun
       IN /\ faults + res.faults <= MaxFaults
          /\ faults' = faults + res.faults
          /\ delivered' = [delivered EXCEPT ![id][user_id] = @ + res.delivered]
          /\ IF res.raised
             THEN /\ broadcasts' = IF r \in Ticks
                                   THEN SetRecord(counted, id, Errored(counted[id]))
                                   ELSE counted
                  /\ run' = SetRun(r, after)
                  /\ boot' = BootAfter(after)
             ELSE /\ broadcasts' = counted
                  /\ run' = SetRun(r, [rr EXCEPT
                         !.done = @ + 1,
                         !.sent_count = res.sent_count,
                         !.failed_count = res.failed_count,
                         !.errors_by_type = res.errors_by_type,
                         !.attempts = res.attempts,
                         !.slept = res.slept])
                  /\ UNCHANGED boot
    /\ UNCHANGED <<probe, now, users, pending_approvals, dispatched, crashes>>

\* ------------------------------------------------------- batch parameters
\* check_scheduled_broadcasts: batch_size and batch_delay from the record's
\* total_users, as the if/elif chain computes them
TierOf(total_users) ==
    IF total_users > 1000 THEN <<50, 5>>
    ELSE IF total_users > 5000 THEN <<100, 10>>
    ELSE <<25, 3>>

\* send_broadcast: "batch_size or DEFAULT_BATCH_SIZE" and the same for the
\* delay; an argument left out (None) is 0 here, both are falsy
BatchParams(batch_size, batch_delay) ==
    <<IF batch_size # 0 THEN batch_size ELSE DEFAULT_BATCH_SIZE,
      IF batch_delay # 0 THEN batch_delay ELSE DEFAULT_BATCH_DELAY>>

\* ------------------------------------------------------------ helper calls
\* the filters a caller can hand to send_broadcast or schedule_broadcast
FilterInputs ==
    [source : Sources \cup {Absent}, status : {Absent, "active", "pending"}]

ProbeInputs ==
    {[NoProbe EXCEPT !.fn = f, !.total = n] :
        f \in {"scheduled", "immediate"}, n \in 0..MaxTotal}
    \cup {[NoProbe EXCEPT !.fn = f, !.target_filter = g, !.caller_filter = g] :
        f \in {"send_broadcast", "schedule_broadcast"}, g \in FilterInputs}
    \cup {[NoProbe EXCEPT !.fn = "schedule_time", !.schedule_time = [t |-> t, tzinfo |-> z]] :
        t \in MoscowOffset..MaxCivil, z \in {"None", "UTC"}}

\* the program as constructed, about to make one helper call
InitPure ==
    /\ probe \in ProbeInputs
    /\ now = 0
    /\ users = InitUsers
    /\ pending_approvals = InitPending
    /\ broadcasts = <<>>
    /\ run = [r \in Runs |-> IdleRun]
    /\ delivered = [b \in 1..MaxBroadcasts |-> [u \in 1..NumUsers |-> 0]]
    /\ dispatched = [b \in 1..MaxBroadcasts |-> 0]
    /\ faults = 0
    /\ crashes = 0
    /\ boot = "starting"

\* the scheduler's parameters for a record with total_users = probe.total
SchedulerParams ==
    /\ probe.fn = "scheduled" /\ ~probe.done
    /\ LET tier == TierOf(probe.total)
           given == BatchParams(tier[1], tier[2])
       IN probe' = [probe EXCEPT !.done = TRUE, !.batch_size = given[1],
                                 !.batch_delay = given[2]]
    /\ UNCHANGED <<now, users, pending_approvals, broadcasts, run, delivered,
                   dispatched, faults, crashes, boot>>

\* process_broadcast_confirmation calls send_broadcast without batch_size and
\* batch_delay, whatever the number of recipients (probe.total) is
ImmediateParams ==
    /\ probe.fn = "immediate" /\ ~probe.done
    /\ LET given == BatchParams(0, 0)
       IN probe' = [probe EXCEPT !.done = TRUE, !.batch_size = given[1],
                                 !.batch_delay = given[2]]
    /\ UNCHANGED <<now, users, pending_approvals, broadcasts, run, delivered,
                   dispatched, faults, crashes, boot>>

\* send_broadcast's recipient resolution for the caller's filter: the filter
\* it queries with is built on a copy, the caller's mapping is left as given
SendFilter ==
    /\ probe.fn = "send_broadcast" /\ ~probe.done
    /\ probe' = [probe EXCEPT
           !.done = TRUE,
           !.combined_filter = IF Truthy(probe.target_filter)
                               THEN CombinedFilter(probe.target_filter)
                               ELSE [NoFilter EXCEPT !.status = "active"],
           !.caller_filter = probe.target_filter,
           !.found = UserIds(ResolveUsers(users, probe.target_filter))]
    /\ UNCHANGED <<now, users, pending_approvals, broadcasts, run, delivered,
                   dispatched, faults, crashes, boot>>

\* schedule_broadcast's combined_filter, built on a copy and stored
ScheduleFilter ==
    /\ probe.fn = "schedule_broadcast" /\ ~probe.done
    /\ LET combined_filter == CombinedFilter(probe.target_filter)
       IN probe' = [probe EXCEPT
              !.done = TRUE,
              !.combined_filter = combined_filter,
              !.caller_filter = probe.target_filter,
              !.found = UserIds(get_users_by_filter(users, combined_filter))]
    /\ UNCHANGED <<now, users, pending_approvals, broadcasts, run, delivered,
                   dispatched, faults, crashes, boot>>

\* schedule_broadcast for the datetime in probe.schedule_time and no filter:
\* the time is normalised, the recipients are counted, the record is inserted
\* (the driver writes a datetime as a UTC instant without offset)
ScheduleAt ==
    /\ probe.fn = "schedule_time" /\ ~probe.done
    /\ Len(broadcasts) < MaxBroadcasts
    /\ LET schedule_time == NormalizeScheduleTime(probe.schedule_time)
           combined_filter == CombinedFilter(NoFilter)
           total_users == Len(get_users_by_filter(users, combined_filter))
       IN /\ probe' = [probe EXCEPT !.done = TRUE, !.stored = schedule_time]
          /\ broadcasts' = Append(broadcasts,
                 ScheduledRecord(combined_filter, schedule_time.t, total_users))
    /\ UNCHANGED <<now, users, pending_approvals, run, delivered, dispatched,
                   faults, crashes, boot>>

\* --------------------------------------------------------------- reports
\* find(query): get_all_users with status None queries {}
FindUsers(store, status) ==
    IF status = Absent THEN store ELSE get_all_users(store, status)

\* cursor.skip(skip).limit(limit)
Page(docs, limit, skip) ==
    SubSeq(docs, skip + 1, IF skip + limit < Len(docs) THEN skip + limit ELSE Len(docs))

\* mutant: a full page is taken for the last one as well
LastPageOrFull(users_batch, batch_size) == Len(users_batch) <= batch_size

\* "if len(users_batch) < batch_size: break"
LastPage(users_batch, batch_size) == Len(users_batch) < batch_size

\* the sizes of the users collection: up to MaxStore, around the multiples of
\* the page size (the empty collection and the exact multiples among them)
StoreSizes ==
    {n \in 0..MaxStore :
        \/ n % UsersBatchSize <= Near
        \/ n % UsersBatchSize >= UsersBatchSize - Near}

\* a users collection of n documents, and a report about to be generated:
\* the full report (status None) or the report of the active users
InitPage ==
    /\ \E n \in StoreSizes : users = [i \in 1..n |-> UserDoc(i)]
    /\ \E st \in {Absent, "active"} :
          probe = [NoProbe EXCEPT !.fn = "export", !.status = st]
    /\ now = 0
    /\ pending_approvals = <<>>
    /\ broadcasts = <<>>
    /\ run = [r \in Runs |-> IdleRun]
    /\ delivered = [b \in 1..MaxBroadcasts |-> [u \in 1..NumUsers |-> 0]]
    /\ dispatched = [b \in 1..MaxBroadcasts |-> 0]
    /\ faults = 0
    /\ crashes = 0
    /\ boot = "running"

\* one turn of "while True" in generate_users_statistics_excel and in
\* send_active_users_statistics_excel
LoadPage ==
    /\ probe.fn = "export" /\ ~probe.done
    /\ LET users_batch ==
               Page(FindUsers(users, probe.status), UsersBatchSize, probe.skip)
       IN probe' =
             IF users_batch = <<>>
             THEN [probe EXCEPT !.done = TRUE]
             ELSE [probe EXCEPT
                      !.all_users = @ \o UserIds(users_batch),
                      !.skip = @ + UsersBatchSize,
                      !.done = LastPage(users_batch, UsersBatchSize)]
    /\ UNCHANGED <<now, users, pending_approvals, broadcasts, run, delivered,
                   dispatched, faults, crashes, boot>>

\* the whole paging loop: the list all_users it ends with
RECURSIVE LoadAll(_, _, _)
LoadAll(store, status, skip) ==
    LET users_batch == Page(FindUsers(store, status), UsersBatchSize, skip) IN
    IF users_batch = <<>> THEN <<>>
    ELSE IF LastPage(users_batch, UsersBatchSize) THEN users_batch
    ELSE users_batch \o LoadAll(store, status, skip + UsersBatchSize)

\* "isinstance(target_filter, dict)" for a stored target_filter.  Both inserts
\* write the key: schedule_broadcast a dict that has a status, send_broadcast
\* its argument as given, which is None when the administrator chose all
\* users.  A stored filter without keys is that None.
IsDict(target_filter) == Truthy(target_filter)

\* "if broadcast.get('status') not in ['completed', 'in_progress']: continue"
Counted(b) == b.status \in {"completed", "in_progress"}

\* user_broadcast_counts[user_id]['total_broadcasts'] after the loop over the
\* broadcasts (read in pages of 500, every record once)
LifetimeCount(user, coll) ==
    Cardinality({b \in Ids(coll) :
        /\ Counted(coll[b])
        /\ IsDict(coll[b].target_filter)
        /\ Matches(user, coll[b].target_filter)})

\* the records the two inserts can leave in the store, in every status
RecordInputs ==
    {[ImmediateRecord(f, 1) EXCEPT !.status = st] :
        f \in AdminFilters, st \in {"in_progress", "completed"}}
    \cup {[ScheduledRecord(CombinedFilter(f), 1, 1) EXCEPT !.status = st] :
        f \in AdminFilters, st \in {"scheduled", "in_progress", "completed", "error"}}

\* a running process whose store holds up to MaxBroadcasts such records
InitReport ==
    /\ probe = [NoProbe EXCEPT !.fn = "full_report"]
    /\ now = MaxNow
    /\ users = InitUsers
    /\ pending_approvals = InitPending
    /\ broadcasts \in UNION {[1..n -> RecordInputs] : n \in 0..MaxBroadcasts}
    /\ run = [r \in Runs |-> IdleRun]
    /\ delivered = [b \in 1..MaxBroadcasts |-> [u \in 1..NumUsers |-> 0]]
    /\ dispatched = [b \in 1..MaxBroadcasts |-> 0]
    /\ faults = 0
    /\ crashes = 0
    /\ boot = "running"

\* generate_users_statistics_excel: the users are loaded, then every user's
\* count is taken over the broadcasts; counts[i] is the count of all_users[i]
GenerateReport ==
    /\ probe.fn = "full_report" /\ ~probe.done
    /\ LET all_users == LoadAll(users, Absent, 0)
       IN probe' = [probe EXCEPT
                       !.done = TRUE,
                       !.all_users = UserIds(all_users),
                       !.counts = [i \in 1..Len(all_users) |->
                                      LifetimeCount(all_users[i], broadcasts)]]
    /\ UNCHANGED <<now, users, pending_approvals, broadcasts, run, delivered,
                   dispatched, faults, crashes, boot>>

\* ----------------------------------------------------------------- boot
\* the schedule times (UTC hours) of the records a stopped process left behind
BootStamps == (BootNow - 6)..(BootNow + 4)

\* the stores a stopped process can leave: scheduled records for all active users
StoreInputs ==
    {<<>>}
    \cup {<<ScheduledRecord(CombinedFilter(NoFilter), t, 1)>> : t \in BootStamps}
    \cup {<<ScheduledRecord(CombinedFilter(NoFilter), t1, 1),
            ScheduledRecord(CombinedFilter(NoFilter), t2, 1)>> :
              t1 \in BootStamps, t2 \in BootStamps}

\* a process started at BootNow over such a store
InitBoot ==
    /\ probe = NoProbe
    /\ now = BootNow
    /\ users = InitUsers
    /\ pending_approvals = <<>>
    /\ broadcasts \in StoreInputs
    /\ run = [r \in Runs |-> IdleRun]
    /\ delivered = [b \in 1..MaxBroadcasts |-> [u \in 1..NumUsers |-> 0]]
    /\ dispatched = [b \in 1..MaxBroadcasts |-> 0]
    /\ faults = 0
    /\ crashes = 0
    /\ boot = "starting"

\* ------------------------------------------------------------ join requests
\* mutant: every user is taken to have an entry
HasEntryAlways(ledger, user_id) == TRUE

\* "if user_id in pending_approvals"
HasEntry(ledger, user_id) == user_id \in DOMAIN ledger

\* mutant: an entry expires when it is seven days old
ExpiredAtWeek(t, timestamp) == t - timestamp >= WeekHours

\* "now - data['timestamp'] > expired_time"
Expired(t, timestamp) == t - timestamp > WeekHours

\* the ledgers a process that has run for more than a week can hold
LedgerInputs ==
    UNION {[S -> 0..MaxStamp] : S \in SUBSET (1..NumUsers)}

\* a process that has been up for a little more than seven days
InitJoin ==
    /\ probe = NoProbe
    /\ now \in (WeekHours + 1)..(WeekHours + MaxStamp)
    /\ users = InitUsers
    /\ pending_approvals \in LedgerInputs
    /\ broadcasts = <<>>
    /\ run = [r \in Runs |-> IdleRun]
    /\ delivered = [b \in 1..MaxBroadcasts |-> [u \in 1..NumUsers |-> 0]]
    /\ dispatched = [b \in 1..MaxBroadcasts |-> 0]
    /\ faults = 0
    /\ crashes = 0
    /\ boot = "running"

\* process_join_request of a user the store knows: add_user(status="pending")
\* leaves the status of an existing document, then the ledger entry is written.
\* fault: add_user raises and the handler logs the error.
process_join_request(user_id, fault) ==
    /\ boot = "running"
    /\ \E i \in 1..Len(users) : users[i].user_id = user_id
    /\ IF fault
       THEN /\ faults < MaxFaults
            /\ faults' = faults + 1
            /\ UNCHANGED pending_approvals
       ELSE /\ UNCHANGED faults
            /\ pending_approvals' =
                   [k \in DOMAIN pending_approvals \cup {user_id} |->
                       IF k = user_id THEN now ELSE pending_approvals[k]]
    /\ probe' = [NoProbe EXCEPT !.fn = "process_join_request", !.done = TRUE,
                                !.user_id = user_id]
    /\ UNCHANGED <<now, users, broadcasts, run, delivered, dispatched, crashes, boot>>

\* what can go wrong inside one call of approve_join_request
ApproveOutcomes == {"ok", "approve_raises", "get_user_raises", "update_user_raises"}

\* approve_join_request: the whole function.  platform: join_request.approve()
\* was called and returned; returned: the function's result (every exception
\* is caught and gives False).
approve_join_request(user_id, out) ==
    /\ boot = "running"
    /\ LET entry == HasEntry(pending_approvals, user_id)
           platform == entry /\ out # "approve_raises"
           user_data == /\ platform
                        /\ out # "get_user_raises"
                        /\ \E i \in 1..Len(users) : users[i].user_id = user_id
           updated == user_data /\ out # "update_user_raises"
       IN /\ out # "ok" => (entry /\ faults < MaxFaults)
          /\ faults' = IF out # "ok" THEN faults + 1 ELSE faults
          /\ users' = IF updated THEN Activate(users, user_id) ELSE users
          /\ pending_approvals' =
                 IF updated THEN DelEntry(pending_approvals, user_id)
                 ELSE pending_approvals
          /\ probe' = [NoProbe EXCEPT !.fn = "approve_join_request", !.done = TRUE,
                                      !.user_id = user_id, !.returned = updated,
                                      !.platform = platform]
    /\ UNCHANGED <<now, broadcasts, run, delivered, dispatched, crashes, boot>>

\* the daily job clean_old_pending_approvals
clean_old_pending_approvals ==
    /\ boot = "running"
    /\ LET expired_user_ids ==
               {u \in DOMAIN pending_approvals : Expired(now, pending_approvals[u])}
           kept == [k \in DOMAIN pending_approvals \ expired_user_ids |->
                       pending_approvals[k]]
       IN /\ pending_approvals' = kept
          /\ probe' = [NoProbe EXCEPT !.fn = "clean_old_pending_approvals",
                                      !.done = TRUE,
                                      !.total_pending = Cardinality(DOMAIN kept),
                                      !.cleaned = Cardinality(expired_user_ids)]
    /\ UNCHANGED <<now, users, broadcasts, run, delivered, dispatched, faults,
                   crashes, boot>>

\* ------------------------------------------------------------ the batch loop
\* send_broadcast from "total_batches = ..." to the end of the loop, for one
\* run.  probe.log is what the run did, in order: "batch" (a batch starts,
\* value = batch_index), "send" and "retry" (a platform call for user, with
\* its result), "wait" (sleep(retry_after)), "sleep" (sleep(SAFE_MESSAGE_DELAY),
\* value = the delay) and "pause" (sleep(batch_delay)).
\* Delays are kept exact as multiples of 1 / (10 * batch_size) second.
Min(a, b) == IF a <= b THEN a ELSE b

Max(a, b) == IF a >= b THEN a ELSE b

\* math.ceil(total_users / batch_size)
Ceil(n, d) == (n + d - 1) \div d

\* SAFE_MESSAGE_DELAY = 0.4
SAFE_MESSAGE_DELAY(batch_size) == 4 * batch_size

\* SAFE_MESSAGE_DELAY = max(SAFE_MESSAGE_DELAY, retry_after / batch_size + 0.1)
AfterRetryAfter(delay, retry_after, batch_size) ==
    Max(delay, 10 * retry_after + batch_size)

\* mutant: the slice starts one document early
CurrentBatchOverlapping(users_list, start_idx, end_idx) ==
    SubSeq(users_list, Max(start_idx, 1), end_idx)

\* users[start_idx:end_idx]
CurrentBatch(users_list, start_idx, end_idx) ==
    SubSeq(users_list, start_idx + 1, end_idx)

\* mutant: a pause after every batch
MoreBatchesAlways(batch_index, total_batches) == TRUE

\* if batch_index < total_batches - 1
MoreBatches(batch_index, total_batches) == batch_index < total_batches - 1

Event(ev, user, result, value) ==
    [ev |-> ev, user |-> user, result |-> result, value |-> value]

\* What the environment does to one recipient of the loop: the result of the
\* send, of the retry after a RetryAfter with timeout w, and whether the
\* recipient's first and second counter write fail (only with save_to_db).
LoopOutcomes ==
    {out \in [send : {"ok", "RetryAfter", "BotBlocked"}, retry : {"ok", "BotBlocked"},
              w : {ShortWait, RetryWait}, w1 : BOOLEAN, w2 : BOOLEAN] :
        /\ out.send # "RetryAfter" => (out.retry = "ok" /\ out.w = ShortWait)
        /\ ~out.w1 => ~out.w2
        /\ (out.send = "BotBlocked" \/ out.retry = "BotBlocked") => ~out.w2}

\* The body of "for user in current_batch" as the events it adds, the delay it
\* leaves and whether an exception leaves send_broadcast.  A counter write that
\* fails in the try body is caught by "except Exception" (no sleep follows);
\* one that fails in an except clause leaves the function.
UserEvents(user_id, out, delay, batch_size, save_to_db) ==
    LET wfail1 == save_to_db /\ out.w1
        wfail2 == save_to_db /\ out.w2
    IN IF out.send = "ok"
       THEN [log |-> <<Event("send", user_id, "ok", 0)>>
                     \o (IF wfail1 THEN <<>> ELSE <<Event("sleep", 0, "", delay)>>),
             delay |-> delay, raised |-> wfail2]
       ELSE IF out.send = "RetryAfter"
            THEN [log |-> <<Event("send", user_id, "RetryAfter", 0),
                            Event("wait", 0, "", out.w),
                            Event("retry", user_id, out.retry, 0)>>,
                  delay |-> AfterRetryAfter(delay, out.w, batch_size),
                  raised |-> IF out.retry = "ok" THEN wfail2 ELSE wfail1]
            ELSE [log |-> <<Event("send", user_id, out.send, 0)>>,
                  delay |-> delay, raised |-> wfail1]

BatchSizes == {SmallBatch, SmallBatch + 1, DEFAULT_BATCH_SIZE}

\* send_broadcast has resolved 1..n recipients (an empty list returns before
\* the loop) and enters the loop
InitLoop ==
    /\ now = 0
    /\ users = InitUsers
    /\ pending_approvals = InitPending
    /\ broadcasts = <<>>
    /\ run = [r \in Runs |-> IdleRun]
    /\ delivered = [b \in 1..MaxBroadcasts |-> [u \in 1..NumUsers |-> 0]]
    /\ dispatched = [b \in 1..MaxBroadcasts |-> 0]
    /\ faults = 0
    /\ crashes = 0
    /\ boot = "running"
    /\ \E n \in 1..MaxList, bs \in BatchSizes, save \in BOOLEAN :
          probe = [NoProbe EXCEPT !.fn = "send_broadcast",
                                  !.found = [i \in 1..n |-> i],
                                  !.batch_size = bs,
                                  !.batch_delay = DEFAULT_BATCH_DELAY,
                                  !.save_to_db = save,
                                  !.delay = SAFE_MESSAGE_DELAY(bs)]

\* one recipient of the loop, with the start of its batch before it when it is
\* the batch's first and the end of the batch after it when it is the last
SendBatchUser(out) ==
    /\ probe.fn = "send_broadcast"
    /\ ~probe.done
    /\ out.w1 => probe.save_to_db
    /\ LET total_users == Len(probe.found)
           batch_size == probe.batch_size
           total_batches == Ceil(total_users, batch_size)
           start_idx == probe.batch_index * batch_size
           end_idx == Min(start_idx + batch_size, total_users)
           current_batch == CurrentBatch(probe.found, start_idx, end_idx)
           user_id == current_batch[probe.handled + 1]
           started == IF probe.handled = 0
                      THEN <<Event("batch", 0, "", probe.batch_index)>>
                      ELSE <<>>
           res == UserEvents(user_id, out, probe.delay, batch_size, probe.save_to_db)
           last == probe.handled + 1 = Len(current_batch)
           more == MoreBatches(probe.batch_index, total_batches)
           paused == IF ~res.raised /\ last /\ more
                     THEN <<Event("pause", 0, "", probe.batch_delay)>>
                     ELSE <<>>
       IN probe' = [probe EXCEPT
              !.log = @ \o started \o res.log \o paused,
              !.delay = res.delay,
              !.raised = res.raised,
              !.handled = IF last THEN 0 ELSE @ + 1,
              !.batch_index = IF last /\ ~res.raised THEN @ + 1 ELSE @,
              !.done = res.raised \/ (last /\ probe.batch_index + 1 >= total_batches)]
    /\ UNCHANGED <<now, users, pending_approvals, broadcasts, run, delivered,
                   dispatched, faults, crashes, boot>>

\* ------------------------------------------------------ concurrent handlers
\* The dispatcher runs the handlers of the updates it has fetched as tasks of
\* one event loop: a handler runs alone between two awaits and any other
\* handler may run at an await.  Two handlers are followed, each through one
\* update: a chat join request (process_join_request) or /start (start_cmd),
\* for a stored user or for one the store has not seen.
Handlers == {"h1", "h2"}

NewUser == NumUsers + 1

\* find_one's None
NoDoc == [user_id |-> 0, status |-> Absent, source |-> Absent, activated_at |-> FALSE]

NoUpdate == [status |-> Absent, activated_at |-> FALSE, source |-> Absent]

IdleHandler ==
    [pc |-> "idle", kind |-> "none", user_id |-> 0, source |-> Absent,
     existing_user |-> NoDoc, update_data |-> NoUpdate, inserted |-> FALSE,
     returned |-> "none"]

\* collection.find_one({"user_id": user_id})
find_one(store, user_id) ==
    IF FirstOf(store, user_id) = 0 THEN NoDoc ELSE store[FirstOf(store, user_id)]

\* mutant: the update writes the status it was called with
NeedsStatusAlways(existing_user, status) == TRUE

\* if existing_user.get("status") != "active" and status == "active"
NeedsStatus(existing_user, status) ==
    existing_user.status # "active" /\ status = "active"

\* the "$set" add_user builds for an existing user, over the keys of a document
UpdateData(existing_user, status, source) ==
    [status |-> IF NeedsStatus(existing_user, status) THEN status ELSE Absent,
     activated_at |-> NeedsStatus(existing_user, status),
     source |-> IF existing_user.source = Absent /\ source # Absent
                THEN source ELSE Absent]

\* collection.update_one({"user_id": user_id}, update_data)
update_one(store, user_id, update_data) ==
    [i \in 1..Len(store) |->
        IF i = FirstOf(store, user_id)
        THEN [store[i] EXCEPT
                 !.status = IF update_data.status # Absent
                            THEN update_data.status ELSE @,
                 !.activated_at = IF update_data.activated_at THEN TRUE ELSE @,
                 !.source = IF update_data.source # Absent
                            THEN update_data.source ELSE @]
        ELSE store[i]]

\* the document add_user inserts
NewDoc(user_id, source, status) ==
    [user_id |-> user_id, status |-> status, source |-> source,
     activated_at |-> status = "active"]

InitRace ==
    /\ now = 0
    /\ users = InitUsers
    /\ pending_approvals = InitPending
    /\ broadcasts = <<>>
    /\ run = [h \in Handlers |-> IdleHandler]
    /\ delivered = [b \in 1..MaxBroadcasts |-> [u \in 1..NumUsers |-> 0]]
    /\ dispatched = [b \in 1..MaxBroadcasts |-> 0]
    /\ faults = 0
    /\ crashes = 0
    /\ boot = "running"
    /\ probe = [NoProbe EXCEPT !.fn = "handlers"]

SetHandler(h, v) == [run EXCEPT ![h] = v]

\* an update reaches its handler, which runs up to the find_one of add_user
\* (a join request carries the source of its invite link)
Receive(h, kind, user_id) ==
    /\ probe.fn = "handlers"
    /\ run[h].pc = "idle"
    /\ run' = SetHandler(h, [IdleHandler EXCEPT
           !.pc = "find_one", !.kind = kind, !.user_id = user_id,
           !.source = IF kind = "join" THEN "A" ELSE Absent])
    /\ UNCHANGED <<probe, now, users, pending_approvals, broadcasts, delivered,
                   dispatched, faults, crashes, boot>>

\* add_user: existing_user = await collection.find_one(...)
AddUserFind(h) ==
    /\ run[h].pc = "find_one"
    /\ run' = SetHandler(h, [run[h] EXCEPT
           !.pc = "write", !.existing_user = find_one(users, run[h].user_id)])
    /\ UNCHANGED <<probe, now, users, pending_approvals, broadcasts, delivered,
                   dispatched, faults, crashes, boot>>

\* add_user: update_one for the user it found, insert_one when it found none;
\* both handlers call it with status "pending"
AddUserWrite(h) ==
    /\ run[h].pc = "write"
    /\ LET r == run[h]
           update_data == UpdateData(r.existing_user, "pending", r.source)
           next == IF r.kind = "join" THEN "ledger" ELSE "last_interaction"
       IN IF r.existing_user # NoDoc
          THEN /\ users' = update_one(users, r.user_id, update_data)
               /\ run' = SetHandler(h, [r EXCEPT !.pc = next,
                                                 !.update_data = update_data])
          ELSE /\ users' = Append(users, NewDoc(r.user_id, r.source, "pending"))
               /\ run' = SetHandler(h, [r EXCEPT !.pc = next, !.inserted = TRUE])
    /\ UNCHANGED <<probe, now, pending_approvals, broadcasts, delivered,
                   dispatched, faults, crashes, boot>>

\* process_join_request after add_user: pending_approvals[user.id] = {...}; the
\* messages that follow change nothing that is kept
JoinLedger(h) ==
    /\ run[h].pc = "ledger"
    /\ pending_approvals' =
           [k \in DOMAIN pending_approvals \cup {run[h].user_id} |->
               IF k = run[h].user_id THEN now ELSE pending_approvals[k]]
    /\ run' = SetHandler(h, [run[h] EXCEPT !.pc = "done"])
    /\ UNCHANGED <<probe, now, users, broadcasts, delivered, dispatched, faults,
                   crashes, boot>>

\* start_cmd after update_user(last_interaction): with an entry in the ledger
\* it calls approve_join_request, which finds the entry and calls
\* join_request.approve(); without one start_cmd goes on to its menu
StartCheck(h) ==
    /\ run[h].pc = "last_interaction"
    /\ run' = SetHandler(h, [run[h] EXCEPT
           !.pc = IF HasEntry(pending_approvals, run[h].user_id)
                  THEN "approve" ELSE "done"])
    /\ UNCHANGED <<probe, now, users, pending_approvals, broadcasts, delivered,
                   dispatched, faults, crashes, boot>>

\* the platform answers join_request.approve(): it accepts the approval, or
\* the call raises and approve_join_request returns False
ApproveAnswer(h, ok) ==
    /\ run[h].pc = "approve"
    /\ IF ok
       THEN /\ probe' = [probe EXCEPT !.approvals[run[h].user_id] = @ + 1]
            /\ run' = SetHandler(h, [run[h] EXCEPT !.pc = "get_user"])
       ELSE /\ UNCHANGED probe
            /\ run' = SetHandler(h, [run[h] EXCEPT !.pc = "done", !.returned = "False"])
    /\ UNCHANGED <<now, users, pending_approvals, broadcasts, delivered,
                   dispatched, faults, crashes, boot>>

\* user_data = await get_user(user_id); if user_data: await update_user(...)
ApproveGetUser(h) ==
    /\ run[h].pc = "get_user"
    /\ run' = SetHandler(h,
           IF find_one(users, run[h].user_id) = NoDoc
           THEN [run[h] EXCEPT !.pc = "done", !.returned = "False"]
           ELSE [run[h] EXCEPT !.pc = "update_user"])
    /\ UNCHANGED <<probe, now, users, pending_approvals, broadcasts, delivered,
                   dispatched, faults, crashes, boot>>

\* update_user(user_id, {"status": "active", ...})
ApproveUpdateUser(h) ==
    /\ run[h].pc = "update_user"
    /\ users' = Activate(users, run[h].user_id)
    /\ run' = SetHandler(h, [run[h] EXCEPT !.pc = "del"])
    /\ UNCHANGED <<probe, now, pending_approvals, broadcasts, delivered,
                   dispatched, faults, crashes, boot>>

\* del pending_approvals[user_id]; return True.  Without the entry the del
\* raises KeyError and the except clause returns False.
ApproveDel(h) ==
    /\ run[h].pc = "del"
    /\ IF HasEntry(pending_approvals, run[h].user_id)
       THEN /\ pending_approvals' = DelEntry(pending_approvals, run[h].user_id)
            /\ run' = SetHandler(h, [run[h] EXCEPT !.pc = "done", !.returned = "True"])
       ELSE /\ UNCHANGED pending_approvals
            /\ run' = SetHandler(h, [run[h] EXCEPT !.pc = "done", !.returned = "False"])
    /\ UNCHANGED <<probe, now, users, broadcasts, delivered, dispatched, faults,
                   crashes, boot>>

\* ------------------------------------------------------------ specifications
\* The scheduler: scheduled broadcasts, two instances of the tick, restarts, a
\* growing set of active users; a recipient either takes the message or has
\* blocked the bot.
SchedOutcomes ==
    {out \in Outcomes : out.send \in {"ok", "BotBlocked"} /\ ~out.w1}

NextSched ==
    \/ AdvanceTime
    \/ Crash
    \/ Startup
    \/ \E u \in 1..NumUsers : ApproveJoinRequest(u)
    \/ \E f \in AdminFilters, m \in 1..(MaxNow + MoscowOffset) : ScheduleBroadcast(f, m)
    \/ \E t \in Ticks : TickStart(t)
    \/ \E t \in Ticks, fault \in BOOLEAN : Claim(t, fault)
    \/ \E t \in Ticks, fault \in 0..2 : Dispatch(t, fault)
    \/ \E t \in Ticks, fault \in 0..2 : TickFinish(t, fault)
    \/ \E t \in Ticks, out \in SchedOutcomes : SendOne(t, out)

SpecSched == Init /\ [][NextSched]_vars

\* The sender: the administrator's immediate broadcast beside one scheduler
\* tick, with every send result and every storage failure.
NextSend ==
    \/ AdvanceTime
    \/ Crash
    \/ Startup
    \/ \E u \in 1..NumUsers : ApproveJoinRequest(u)
    \/ \E f \in AdminFilters, m \in 1..(MaxNow + MoscowOffset) : ScheduleBroadcast(f, m)
    \/ \E a \in Admins, f \in AdminFilters, fault \in {"none", "resolver", "insert"} :
          AdminStart(a, f, fault)
    \/ \E a \in Admins, fault \in BOOLEAN : AdminFinish(a, fault)
    \/ TickStart("tick1")
    \/ \E fault \in BOOLEAN : Claim("tick1", fault)
    \/ \E fault \in 0..2 : Dispatch("tick1", fault)
    \/ \E fault \in 0..2 : TickFinish("tick1", fault)
    \/ \E r \in {"tick1", "admin"}, out \in Outcomes : SendOne(r, out)

SpecSend == Init /\ [][NextSend]_vars

\* The scheduler with the scheduling the claims about progress assume: the
\* process stays up, the interval job keeps firing, every send returns.
NextLive ==
    \/ AdvanceTime
    \/ Startup
    \/ \E u \in 1..NumUsers : ApproveJoinRequest(u)
    \/ \E f \in AdminFilters, m \in 1..(MaxNow + MoscowOffset) : ScheduleBroadcast(f, m)
    \/ \E t \in Ticks : TickStart(t)
    \/ \E t \in Ticks, fault \in BOOLEAN : Claim(t, fault)
    \/ \E t \in Ticks, fault \in 0..2 : Dispatch(t, fault)
    \/ \E t \in Ticks, fault \in 0..2 : TickFinish(t, fault)
    \/ \E t \in Ticks, out \in SchedOutcomes : SendOne(t, out)

SpecLive ==
    /\ Init
    /\ [][NextLive]_vars
    /\ WF_vars(Startup)
    /\ \A t \in Ticks :
          /\ WF_vars(TickStart(t))
          /\ WF_vars(\E fault \in BOOLEAN : Claim(t, fault))
          /\ WF_vars(\E fault \in 0..2 : Dispatch(t, fault))
          /\ WF_vars(\E out \in SchedOutcomes : SendOne(t, out))
          /\ WF_vars(\E fault \in 0..2 : TickFinish(t, fault))

\* One helper call, for every argument in the bounded sets.
NextPure ==
    \/ SchedulerParams
    \/ ImmediateParams
    \/ SendFilter
    \/ ScheduleFilter
    \/ ScheduleAt

SpecPure == InitPure /\ [][NextPure]_vars

\* Restarts of a process whose store holds broadcasts scheduled for the next
\* hour and for the evening, and immediate broadcasts; no storage failures.
NextMigrate ==
    \/ AdvanceTime
    \/ Crash
    \/ Startup
    \/ \E m \in {MoscowOffset + 1, LateHour} : ScheduleBroadcast(NoFilter, m)
    \/ AdminStart("admin", NoFilter, "none")
    \/ AdminFinish("admin", FALSE)
    \/ TickStart("tick1")
    \/ Claim("tick1", FALSE)
    \/ Dispatch("tick1", 0)
    \/ TickFinish("tick1", 0)
    \/ \E r \in {"tick1", "admin"}, out \in SchedOutcomes : SendOne(r, out)

SpecMigrate == Init /\ [][NextMigrate]_vars

\* The join-request ledger of a long-running process: requests, approvals (with
\* every failure of the platform and of the store) and the daily sweep.
NextJoin ==
    \/ \E u \in 1..NumUsers, fault \in BOOLEAN : process_join_request(u, fault)
    \/ \E u \in 1..NumUsers, out \in ApproveOutcomes : approve_join_request(u, out)
    \/ clean_old_pending_approvals

SpecJoin == InitJoin /\ [][NextJoin]_vars

\* Boot over a store with scheduled records around the current hour, the first
\* check, then the interval job; restarts; no storage failures.
NextBoot ==
    \/ AdvanceLate
    \/ Crash
    \/ Startup
    \/ \E t \in Ticks : TickStart(t)
    \/ \E t \in Ticks : Claim(t, FALSE)
    \/ \E t \in Ticks : Dispatch(t, 0)
    \/ \E t \in Ticks : TickFinish(t, 0)
    \/ \E t \in Ticks, out \in SchedOutcomes : SendOne(t, out)

SpecBoot == InitBoot /\ [][NextBoot]_vars

\* The paging loop of a report over a users collection that does not change;
\* the handler is not suspended for ever between two pages.
NextPage == LoadPage

SpecPage == InitPage /\ [][NextPage]_vars /\ WF_vars(LoadPage)

\* The full report over every store of broadcasts the program can leave.
NextReport == GenerateReport

SpecReport == InitReport /\ [][NextReport]_vars

\* The batch loop of one run over every short list, batch size and outcome.
NextLoop == \E out \in LoopOutcomes : SendBatchUser(out)

SpecLoop == InitLoop /\ [][NextLoop]_vars

\* Two handlers of the dispatcher side by side, with every interleaving at
\* their awaits.
NextRace ==
    \/ \E h \in Handlers, kind \in {"join", "start"}, u \in 1..NewUser :
          Receive(h, kind, u)
    \/ \E h \in Handlers : AddUserFind(h)
    \/ \E h \in Handlers : AddUserWrite(h)
    \/ \E h \in Handlers : JoinLedger(h)
    \/ \E h \in Handlers : StartCheck(h)
    \/ \E h \in Handlers, ok \in BOOLEAN : ApproveAnswer(h, ok)
    \/ \E h \in Handlers : ApproveGetUser(h)
    \/ \E h \in Handlers : ApproveUpdateUser(h)
    \/ \E h \in Handlers : ApproveDel(h)

SpecRace == InitRace /\ [][NextRace]_vars

\* ===================================================================== claims
Terminal == {"completed", "error"}

C3_CompletedCountsAll ==
    \A b \in Ids(broadcasts) :
        broadcasts[b].status = "completed" =>
            broadcasts[b].sent_count + broadcasts[b].failed_count
                = broadcasts[b].total_users

\* C4: in every state every record has sent_count + failed_count <= total_users.
C4_CountersWithinTotal ==
    \A b \in Ids(broadcasts) :
        broadcasts[b].sent_count + broadcasts[b].failed_count
            <= broadcasts[b].total_users

\* C5: a record is created scheduled or in_progress, and its status only moves
\* scheduled -> in_progress -> completed | error; completed and error are final.
StatusMoves ==
    {<<"scheduled", "in_progress">>, <<"in_progress", "completed">>,
     <<"in_progress", "error">>}

C7_RetryOnce ==
    [][\A r \in Runs :
          /\ run'[r].attempts <= 2
          /\ (/\ run[r].pc = "send"
              /\ run[r].done < Len(run[r].users)
              /\ crashes' = crashes
              /\ run'[r] # run[r]
              /\ run'[r].attempts = 2
              /\ faults' = faults)
             => LET id == RecordOf(run[r])
                    u == run[r].users[run[r].done + 1]
                    got == delivered'[id][u] - delivered[id][u]
                IN /\ run'[r].pc = "send"
                   /\ run'[r].done = run[r].done + 1
                   /\ run'[r].slept = RetryWait
                   /\ got \in {0, 1}
                   /\ run'[r].sent_count = run[r].sent_count + got
                   /\ run'[r].failed_count = run[r].failed_count + (1 - got)]_vars

C7_Witness ==
    \E r \in Runs :
        /\ run[r].pc = "send" /\ run[r].done = 2
        /\ run[r].attempts = 2 /\ run[r].slept = RetryWait
        /\ run[r].sent_count = 1 /\ run[r].failed_count = 1
        /\ \E u \in 1..NumUsers : delivered[RecordOf(run[r])][u] = 1

\* C8: a send error of one recipient (unreachable, protocol error, unexpected
\* exception, failed retry) never ends the broadcast: the loop goes on with the
\* next recipient, the record stays in_progress, and a record is completed
\* only when every resolved recipient has been attempted.
C8_SendErrorsDoNotAbort ==
    [][\A r \in Runs :
          /\ (/\ run[r].pc = "send"
              /\ run[r].done < Len(run[r].users)
              /\ crashes' = crashes
              /\ faults' = faults
              /\ run'[r] # run[r])
             => /\ run'[r].pc = "send"
                /\ run'[r].users = run[r].users
                /\ run'[r].done = run[r].done + 1
                /\ broadcasts'[RecordOf(run[r])].status = "in_progress"
          /\ (/\ run[r].pc = "send"
              /\ broadcasts[RecordOf(run[r])].status = "in_progress"
              /\ broadcasts'[RecordOf(run[r])].status = "completed")
             => run[r].done = Len(run[r].users)]_vars

C8_Witness ==
    \E b \in Ids(broadcasts) :
        /\ broadcasts[b].status = "completed"
        /\ broadcasts[b].total_users = 2
        /\ broadcasts[b].failed_count = 1
        /\ broadcasts[b].sent_count = 1

\* C9: when an exception leaves send_broadcast (or the scheduler's try block),
\* the record ends in status error with a message, its counters untouched.
C9_EscapeSetsError ==
    [][\A r \in Runs :
          (/\ run[r].pc = "send"
           /\ run'[r].pc # "send"
           /\ crashes' = crashes
           /\ faults' > faults)
          => LET id == RecordOf(run[r]) IN
             /\ broadcasts'[id].status = "error"
             /\ broadcasts'[id].error
             /\ broadcasts'[id].sent_count = broadcasts[id].sent_count
             /\ broadcasts'[id].failed_count = broadcasts[id].failed_count]_vars

\* C10: in an immediate broadcast (save_to_db), whenever the loop is about to
\* start a recipient, the record's sent_count + failed_count is the number of
\* recipients already handled.
C10_CountersFollowLoop ==
    \A r \in Runs :
        (run[r].pc = "send" /\ run[r].save_to_db)
        => broadcasts[run[r].broadcast_id].sent_count
             + broadcasts[run[r].broadcast_id].failed_count = run[r].done

C10_Witness ==
    \E r \in Runs :
        /\ run[r].pc = "send" /\ run[r].save_to_db
        /\ run[r].done = 1 /\ Len(run[r].users) = 2
        /\ broadcasts[run[r].broadcast_id].failed_count = 1

\* C11: while the scheduler's send_broadcast is inside its loop, the scheduled
\* record's sent_count + failed_count is the number of recipients handled so
\* far (so that a crash leaves the counters of the recipients processed).
C11_ScheduledCountersFollowLoop ==
    \A t \in Ticks :
        (run[t].pc = "send" /\ ~run[t].save_to_db /\ dispatched[run[t].broadcast] = 1)
        => broadcasts[run[t].broadcast].sent_count
             + broadcasts[run[t].broadcast].failed_count = run[t].done

\* C12: for a scheduled broadcast the batch size and pause are a function of
\* the record's total only: below 1000 (25, 3), 1000 to 4999 (50, 5), 5000 and
\* above (100, 10).
C12_SchedulerTierTable ==
    (probe.fn = "scheduled" /\ probe.done)
    => <<probe.batch_size, probe.batch_delay>> =
          IF probe.total >= 5000 THEN <<100, 10>>
          ELSE IF probe.total >= 1000 THEN <<50, 5>>
          ELSE <<25, 3>>

\* C13: for an immediate broadcast the batch size and pause follow the same
\* table, keyed on the number of resolved recipients.
C13_ImmediateTierTable ==
    (probe.fn = "immediate" /\ probe.done)
    => <<probe.batch_size, probe.batch_delay>> =
          IF probe.total >= 5000 THEN <<100, 10>>
          ELSE IF probe.total >= 1000 THEN <<50, 5>>
          ELSE <<25, 3>>

\* C14: when all batches are processed the record holds status completed, a
\* completion timestamp, the sent and failed counts of the returned statistics
\* and the per-error-kind tally, on the immediate and on the scheduled path.
C14_CompletionWritesStatistics ==
    [][\A r \in Runs :
          (/\ run[r].pc = "send"
           /\ run[r].done = Len(run[r].users)
           /\ broadcasts[RecordOf(run[r])].status = "in_progress"
           /\ dispatched[RecordOf(run[r])] <= 1
           /\ broadcasts'[RecordOf(run[r])].status = "completed")
          => LET b == broadcasts'[RecordOf(run[r])] IN
             /\ b.completed_at
             /\ b.sent_count = run[r].sent_count
             /\ b.failed_count = run[r].failed_count
             /\ b.errors = run[r].errors_by_type]_vars

C16_FilterCombination ==
    (probe.fn \in {"send_broadcast", "schedule_broadcast"} /\ probe.done)
    => LET f == probe.target_filter
           expected == [source |-> f.source,
                        status |-> IF f.status = Absent THEN "active" ELSE f.status]
           chosen == SelectSeq(users, LAMBDA u :
                        /\ expected.source = Absent \/ u.source = expected.source
                        /\ u.status = expected.status)
       IN /\ probe.combined_filter = expected
          /\ probe.caller_filter = f
          /\ probe.found = [i \in 1..Len(chosen) |-> chosen[i].user_id]

C16_Witness ==
    /\ probe.fn = "send_broadcast" /\ probe.done
    /\ probe.target_filter = [source |-> "A", status |-> "pending"]
    /\ probe.found = <<2>>

\* C17: a record left in_progress with no coroutine working on it (its process
\* crashed) is never picked up again: over restarts and ticks it stays
\* in_progress, its counters stay, no coroutine takes it and no message is
\* sent for it.
Orphaned(b) ==
    /\ broadcasts[b].status = "in_progress"
    /\ \A r \in Runs :
          \/ run[r].pc = "idle"
          \/ /\ run[r].broadcast # b
             /\ ~(run[r].save_to_db /\ run[r].broadcast_id = b)
             /\ \A i \in 1..Len(run[r].scheduled_broadcasts) :
                   run[r].scheduled_broadcasts[i].id # b

C17_InProgressNeverResumed ==
    [][\A b \in Ids(broadcasts) :
          Orphaned(b) => /\ Orphaned(b)'
                         /\ broadcasts'[b] = broadcasts[b]
                         /\ delivered'[b] = delivered[b]
                         /\ dispatched'[b] = dispatched[b]]_vars

C17_Witness ==
    /\ crashes = 1 /\ faults = 0 /\ boot = "running"
    /\ \E b \in Ids(broadcasts) :
          /\ Orphaned(b)
          /\ dispatched[b] = 1
          /\ \E u \in 1..NumUsers : delivered[b][u] = 1
    /\ \E c \in Ids(broadcasts) : broadcasts[c].status = "completed"

\* C18: the legacy-time migration is idempotent on every stored schedule time:
\* running it twice leaves what running it once leaves (so a record's
\* schedule_time is changed at most once over any number of starts).
C18_MigrationIdempotent ==
    migrate_old_broadcasts(migrate_old_broadcasts(broadcasts))
        = migrate_old_broadcasts(broadcasts)

\* C19: the migration changes nothing in a scheduled record whose schedule_time
\* has an hour of 14 or less.
C19_EarlyHoursUntouched ==
    [][(boot = "starting" /\ boot' # "starting")
       => \A b \in Ids(broadcasts) :
             (/\ broadcasts[b].status = "scheduled"
              /\ broadcasts[b].schedule_time # NoTime
              /\ broadcasts[b].schedule_time % 24 <= 14)
             => broadcasts'[b] = broadcasts[b]]_vars

C19_Witness ==
    /\ crashes = 1
    /\ boot = "first_check"
    /\ run["tick1"].pc = "loop"
    /\ LET b == Head(run["tick1"].scheduled_broadcasts).id
       IN /\ broadcasts[b].status = "scheduled"
          /\ broadcasts[b].schedule_time = 1

\* C20: the migration moves the schedule_time of every scheduled record whose
\* hour is above 14 three hours earlier and changes nothing else: no other
\* field, no record that is not scheduled, no record without a schedule_time.
C20_MigrationFrame ==
    [][(boot = "starting" /\ boot' # "starting")
       => /\ Len(broadcasts') = Len(broadcasts)
          /\ \A b \in Ids(broadcasts) :
                broadcasts'[b] =
                   IF /\ broadcasts[b].status = "scheduled"
                      /\ broadcasts[b].schedule_time # NoTime
                      /\ broadcasts[b].schedule_time % 24 > 14
                   THEN [broadcasts[b] EXCEPT !.schedule_time = @ - 3]
                   ELSE broadcasts[b]]_vars

C20_Witness ==
    /\ crashes = 1
    /\ boot = "running"
    /\ \E b \in Ids(broadcasts) :
          /\ broadcasts[b].status = "scheduled"
          /\ broadcasts[b].schedule_time = LateHour - 2 * MoscowOffset
          /\ broadcasts[b].total_users = 1
    /\ \E c \in Ids(broadcasts) :
          /\ broadcasts[c].status = "in_progress"
          /\ broadcasts[c].schedule_time = NoTime

\* C21: schedule_broadcast called with a time without zone information takes
\* it for UTC+3 civil time and stores that time minus 3 hours with no offset
\* attached: the stored schedule_time is the UTC instant of the typed time.
C21_NaiveTimeStoredAsUTC ==
    (probe.fn = "schedule_time" /\ probe.done /\ probe.schedule_time.tzinfo = "None")
    => /\ probe.stored = [t |-> probe.schedule_time.t - 3, tzinfo |-> "None"]
       /\ broadcasts[Len(broadcasts)].status = "scheduled"
       /\ broadcasts[Len(broadcasts)].schedule_time = probe.schedule_time.t - 3

C21_Witness ==
    /\ probe.fn = "schedule_time" /\ probe.done
    /\ probe.schedule_time = Naive(25)
    /\ Len(broadcasts) = 1
    /\ broadcasts[1].schedule_time = 22

\* C22: a record created by schedule_broadcast has status scheduled and
\* counters 0, and it stays scheduled with counters 0 and no message sent for
\* it until a scheduler tick claims it.
Untouched(b) ==
    /\ broadcasts[b].sent_count = 0
    /\ broadcasts[b].failed_count = 0
    /\ dispatched[b] = 0
    /\ \A u \in 1..NumUsers : delivered[b][u] = 0

C22_ScheduledUntilClaimed ==
    /\ [](\A b \in Ids(broadcasts) : broadcasts[b].status = "scheduled" => Untouched(b))
    /\ [][\A b \in Ids(broadcasts) :
             broadcasts[b].status = "scheduled"
             => \/ broadcasts'[b].status = "scheduled"
                \/ /\ broadcasts'[b].status = "in_progress"
                   /\ \E t \in Ticks :
                         /\ run[t].pc = "loop"
                         /\ Head(run[t].scheduled_broadcasts).id = b
                         /\ run'[t].pc = "claimed"
                         /\ run'[t].broadcast = b]_vars

C22_Witness ==
    /\ now = 1
    /\ \E b \in Ids(broadcasts) :
          /\ broadcasts[b].status = "scheduled"
          /\ broadcasts[b].schedule_time = 1
          /\ broadcasts[b].total_users = 1
          /\ Untouched(b)
          /\ \E t \in Ticks :
                /\ run[t].pc = "loop"
                /\ Head(run[t].scheduled_broadcasts).id = b
    /\ \E c \in Ids(broadcasts) :
          /\ broadcasts[c].status = "completed"
          /\ broadcasts[c].sent_count = 1
          /\ \E u \in 1..NumUsers : delivered[c][u] = 1

\* C23: total_users of a record is written once, when the record is created
\* (the number of recipients its filter resolves to at that time), and no later
\* action (tick, send loop, migration, completion) changes it, also when the
\* set of active users changes before or during the send.
C23_TotalWrittenOnce ==
    [][/\ Len(broadcasts') >= Len(broadcasts)
       /\ \A b \in Ids(broadcasts) :
             broadcasts'[b].total_users = broadcasts[b].total_users
       /\ \A b \in Ids(broadcasts') \ Ids(broadcasts) :
             broadcasts'[b].total_users =
                Cardinality({i \in 1..Len(users) :
                    /\ users[i].status = "active"
                    /\ \/ broadcasts'[b].target_filter.source = Absent
                       \/ users[i].source = broadcasts'[b].target_filter.source})]_vars

C23_Witness ==
    /\ \A i \in 1..Len(users) : users[i].status = "active"
    /\ \E b \in Ids(broadcasts) :
          /\ broadcasts[b].status = "completed"
          /\ broadcasts[b].total_users = 1
          /\ broadcasts[b].sent_count = 2
          /\ \A u \in 1..NumUsers : delivered[b][u] = 1

\* C24: after clean_old_pending_approvals runs at time now the ledger holds
\* exactly the entries that were present with now - timestamp <= 7 days, each
\* unchanged, and cleaned + total_pending of the result is the ledger size
\* before the sweep.
C24_SweepKeepsWeek ==
    [][probe'.fn = "clean_old_pending_approvals"
       => /\ DOMAIN pending_approvals' =
                {u \in DOMAIN pending_approvals : now - pending_approvals[u] <= 168}
          /\ \A u \in DOMAIN pending_approvals' :
                pending_approvals'[u] = pending_approvals[u]
          /\ probe'.cleaned + probe'.total_pending
                = Cardinality(DOMAIN pending_approvals)]_vars

C24_Witness ==
    /\ probe.fn = "clean_old_pending_approvals"
    /\ probe.cleaned = 1 /\ probe.total_pending = 1
    /\ DOMAIN pending_approvals = {2}
    /\ now - pending_approvals[2] = 168

\* C25: whenever approve_join_request has approved the join request on the
\* platform, on return the user's status is active with an activation
\* timestamp and the user's ledger entry is gone.
C25_ApprovedMeansActive ==
    (probe.fn = "approve_join_request" /\ probe.platform)
    => /\ ~HasEntry(pending_approvals, probe.user_id)
       /\ \E i \in 1..Len(users) :
             /\ users[i].user_id = probe.user_id
             /\ users[i].status = "active"
             /\ users[i].activated_at

\* C26: approve_join_request for a user with no ledger entry returns false,
\* changes neither the ledger nor any user's status, and calls no platform
\* approval.
C26_NoEntryNoEffect ==
    [][(/\ probe'.fn = "approve_join_request"
        /\ probe'.user_id \notin DOMAIN pending_approvals)
       => /\ ~probe'.returned
          /\ ~probe'.platform
          /\ pending_approvals' = pending_approvals
          /\ users' = users]_vars

C26_Witness ==
    /\ probe.fn = "approve_join_request"
    /\ probe.user_id = 2
    /\ ~probe.returned /\ ~probe.platform
    /\ faults = 0
    /\ DOMAIN pending_approvals = {1}
    /\ users[2].status = "pending"

\* C27: when the resolver returns no recipients, send_broadcast returns
\* total 0, sent 0, failed 0, sends no message and writes nothing to the
\* broadcast store: no record is created and no status is changed by it (the
\* scheduler's own completion write follows on the scheduled path).
C27_EmptyResolutionWritesNothing ==
    [][/\ \A b \in Ids(broadcasts') \ Ids(broadcasts) :
             broadcasts'[b].status = "in_progress"
             => /\ broadcasts'[b].total_users > 0
                /\ \E a \in Admins :
                      /\ run'[a].pc = "send"
                      /\ run'[a].broadcast_id = b
                      /\ run'[a].users # <<>>
       /\ \A t \in Ticks :
             (run[t].pc = "claimed" /\ run'[t].pc = "send" /\ run'[t].users = <<>>)
             => /\ broadcasts' = broadcasts
                /\ delivered' = delivered
                /\ run'[t].sent_count = 0
                /\ run'[t].failed_count = 0
       /\ \A t \in Ticks :
             (run[t].pc = "send" /\ run[t].users = <<>>)
             => /\ delivered'[run[t].broadcast] = delivered[run[t].broadcast]
                /\ run'[t].pc = "send" => run'[t] = run[t]]_vars

C27_Witness ==
    /\ run["tick1"].pc = "send"
    /\ run["tick1"].users = <<>>
    /\ run["admin"].pc = "idle"
    /\ LET b == run["tick1"].broadcast
       IN /\ broadcasts[b].status = "in_progress"
          /\ broadcasts[b].target_filter.source = "B"
          /\ broadcasts[b].total_users = 0
          /\ \A u \in 1..NumUsers : delivered[b][u] = 0
    /\ \A c \in Ids(broadcasts) : broadcasts[c].schedule_time # NoTime

\* C28: at boot the due-broadcast check runs once at once, after the
\* legacy-time migration has finished and before the one-minute job is
\* registered: every record that is due at boot (by its migrated time) is taken
\* by the startup's own check and claimed before the interval job can fire.
ListIds(r) ==
    {r.scheduled_broadcasts[i].id : i \in 1..Len(r.scheduled_broadcasts)}

C28_FirstCheckAtBoot ==
    [][/\ (boot = "starting" /\ boot' # "starting")
          => LET due == {b \in Ids(broadcasts') :
                            /\ broadcasts'[b].status = "scheduled"
                            /\ broadcasts'[b].schedule_time # NoTime
                            /\ broadcasts'[b].schedule_time <= now}
             IN /\ ListIds(run'["tick1"]) = due
                /\ boot' = IF due = {} THEN "running" ELSE "first_check"
       /\ boot # "running"
          => \A t \in Ticks :
                (run[t].pc = "idle" /\ run'[t].pc # "idle")
                => (boot = "starting" /\ t = "tick1")
       /\ (boot = "first_check" /\ crashes' = crashes)
          => /\ \A b \in ListIds(run["tick1"]) :
                   b \in ListIds(run'["tick1"]) \/ broadcasts'[b].status # "scheduled"
             /\ boot' = "running" => run'["tick1"].pc = "idle"]_vars

C28_Witness ==
    /\ boot = "running"
    /\ crashes = 0
    /\ now = BootNow
    /\ Len(broadcasts) = 2
    /\ broadcasts[1].status = "completed"
    /\ broadcasts[1].schedule_time = BootNow - 2
    /\ broadcasts[2].status = "scheduled"
    /\ broadcasts[2].schedule_time = BootNow + 1
    /\ \A t \in Ticks : run[t].pc = "idle"

\* C29: over a users collection that does not change during the export, the
\* paging loop of the report ends and has loaded every user exactly once: the
\* loaded list is the result of one unpaged query, for every size of the
\* collection (zero and exact multiples of the page size among them).
C29_PagingLoadsAll ==
    /\ [](probe.done =>
            LET unpaged == SelectSeq(users, LAMBDA u :
                               probe.status = Absent \/ u.status = probe.status)
            IN probe.all_users = [i \in 1..Len(unpaged) |-> unpaged[i].user_id])
    /\ <>probe.done

C29_Witness ==
    /\ probe.fn = "export" /\ probe.done
    /\ probe.status = Absent
    /\ Len(users) = 2000
    /\ Len(probe.all_users) = 2000
    /\ probe.skip = 2000

\* C30: in the full report the lifetime broadcast count of a user is the
\* number of records with status completed or in_progress whose stored target
\* filter the user matches on every key; a record without a target filter
\* counts for every user.
C30_LifetimeCount ==
    (probe.fn = "full_report" /\ probe.done)
    => \A i \in 1..Len(users) :
          probe.counts[i] =
             Cardinality({b \in Ids(broadcasts) :
                /\ broadcasts[b].status \in {"completed", "in_progress"}
                /\ \/ broadcasts[b].target_filter.source = Absent
                   \/ broadcasts[b].target_filter.source = users[i].source
                /\ \/ broadcasts[b].target_filter.status = Absent
                   \/ broadcasts[b].target_filter.status = users[i].status})

\* C31: a scheduled broadcast is never dispatched before the UTC instant it was
\* scheduled for: over restarts, migrations and ticks, a record inserted with
\* schedule_time t goes from scheduled to in_progress only at a time now >= t.
C31_NeverEarly ==
    [][\A b \in Ids(broadcasts) :
          (/\ broadcasts[b].status = "scheduled"
           /\ broadcasts'[b].status = "in_progress")
          => now >= broadcasts[b].scheduled_for]_vars


\* C32: in the statistics send_broadcast returns, every resolved recipient is
\* counted exactly once: when a run that went through its whole list returns
\* and its record is completed, sent_count + failed_count is the length of the
\* resolved list, whatever the send results and counter-write failures were.
C32_CountedExactlyOnce ==
    [][\A r \in Runs :
          (/\ run[r].pc = "send"
           /\ run[r].done = Len(run[r].users)
           /\ broadcasts[RecordOf(run[r])].status = "in_progress"
           /\ broadcasts'[RecordOf(run[r])].status = "completed"
           /\ run'[r].pc # "send")
          => run[r].sent_count + run[r].failed_count = Len(run[r].users)]_vars


\* the positions of the log with an event of the kind
At(ev) == {i \in 1..Len(probe.log) : probe.log[i].ev = ev}

\* the recipients a batch reached, in order: the users of the "send" events
\* between the start of batch k and the start of the next batch
RECURSIVE SentFrom(_)
SentFrom(i) ==
    IF i > Len(probe.log) \/ probe.log[i].ev = "batch" THEN <<>>
    ELSE IF probe.log[i].ev = "send"
         THEN <<probe.log[i].user>> \o SentFrom(i + 1)
         ELSE SentFrom(i + 1)

BatchSent(k) ==
    LET i == CHOOSE j \in At("batch") : probe.log[j].value = k
    IN SentFrom(i + 1)

\* C33: send_broadcast splits the resolved list into consecutive batches of
\* batch_size, the last one possibly shorter, and pauses batch_delay between
\* batches but not after the last.  Every batch that has started is numbered
\* in order and reaches the documents of its slice and no others; a pause is
\* always the step before the start of a batch other than the first and has
\* the length batch_delay; a run that went through its list had
\* ceil(n / batch_size) batches and ceil(n / batch_size) - 1 pauses.
C33_BatchesAndPauses ==
    probe.fn = "send_broadcast" =>
        LET n == Len(probe.found)
            bs == probe.batch_size
            nb == Cardinality(At("batch"))
        IN /\ \A k \in 0..(nb - 1) :
                 /\ \E i \in At("batch") : probe.log[i].value = k
                 /\ LET slice == SubSeq(probe.found, k * bs + 1, Min((k + 1) * bs, n))
                        sent == BatchSent(k)
                    IN /\ Len(sent) <= Len(slice)
                       /\ sent = SubSeq(slice, 1, Len(sent))
                       /\ (k < nb - 1 \/ (probe.done /\ ~probe.raised)) => sent = slice
           /\ \A i \in At("batch") :
                 probe.log[i].value > 0 => (i > 1 /\ probe.log[i - 1].ev = "pause")
           /\ \A i \in At("pause") :
                 /\ probe.log[i].value = probe.batch_delay
                 /\ i < Len(probe.log) => probe.log[i + 1].ev = "batch"
                 /\ i = Len(probe.log) => ~probe.done
           /\ (probe.done /\ ~probe.raised) =>
                 /\ nb = Ceil(n, bs)
                 /\ Cardinality(At("pause")) = Ceil(n, bs) - 1

\* a list of four went out in batches of three: a full batch, one pause, a
\* shorter last batch
C33_Witness ==
    /\ probe.fn = "send_broadcast"
    /\ probe.done /\ ~probe.raised
    /\ Len(probe.found) = 4 /\ probe.batch_size = 3
    /\ Cardinality(At("batch")) = 2
    /\ Cardinality(At("pause")) = 1
    /\ BatchSent(1) = <<4>>


\* the recipients of the first attempts so far, in the order they were made
RECURSIVE FirstAttempts(_)
FirstAttempts(i) ==
    IF i > Len(probe.log) THEN <<>>
    ELSE IF probe.log[i].ev = "send"
         THEN <<probe.log[i].user>> \o FirstAttempts(i + 1)
         ELSE FirstAttempts(i + 1)

\* C34: within one run the recipients are attempted in the order the resolver
\* returned them and one at a time.  The first attempts so far are a prefix of
\* the resolved list; a retry is the platform call right after its own first
\* attempt and the wait; every platform call for a recipient comes before the
\* first attempt for the next one; and when a batch starts, every recipient of
\* the batches before it was attempted and none is called afterwards.
C34_InOrderOneAtATime ==
    probe.fn = "send_broadcast" =>
        LET log == probe.log
            order == FirstAttempts(1)
            calls == At("send") \cup At("retry")
        IN /\ Len(order) <= Len(probe.found)
           /\ order = SubSeq(probe.found, 1, Len(order))
           /\ \A i \in At("retry") :
                 /\ i > 2
                 /\ log[i - 1].ev = "wait"
                 /\ log[i - 2].ev = "send"
                 /\ log[i - 2].user = log[i].user
                 /\ log[i - 2].result = "RetryAfter"
           /\ \A i \in calls, j \in At("send") :
                 (\E a \in 1..(Len(probe.found) - 1) :
                     log[i].user = probe.found[a] /\ log[j].user = probe.found[a + 1])
                 => i < j
           /\ \A j \in At("batch") :
                 LET before == {probe.found[a] :
                                   a \in 1..Min(log[j].value * probe.batch_size,
                                                Len(probe.found))}
                 IN /\ \A u \in before : \E i \in At("send") : i < j /\ log[i].user = u
                    /\ \A i \in calls : log[i].user \in before <=> i < j

\* a list of four in batches of two: the second recipient was retried, and the
\* second batch started after that
C34_Witness ==
    /\ probe.fn = "send_broadcast"
    /\ Len(probe.found) = 4 /\ probe.batch_size = 2
    /\ \E i \in At("retry"), j \in At("batch") :
          /\ probe.log[i].user = 2
          /\ probe.log[j].value = 1
          /\ i < j
    /\ \E i \in At("send") : probe.log[i].user = 4


\* the delay the claim gives for position i of the log: 0.4 s and, for every
\* rate-limit signal before i, w / batch_size + 0.1 s, whichever is largest
DelayAt(i) ==
    LET ds == {SAFE_MESSAGE_DELAY(probe.batch_size)} \cup
              {10 * probe.log[j].value + probe.batch_size :
                  j \in {k \in At("wait") : k < i}}
    IN CHOOSE d \in ds : \A e \in ds : d >= e

\* C35: the per-message delay of a run starts at 0.4 s and after each
\* rate-limit signal with wait w becomes max(current, w / batch_size + 0.1);
\* it never decreases and is never below 0.4 s; and every send that succeeds
\* on its first attempt is followed by a sleep of the current delay.
C35_DelayAndSleep ==
    /\ [](probe.fn = "send_broadcast" =>
            /\ probe.delay = DelayAt(Len(probe.log) + 1)
            /\ probe.delay >= SAFE_MESSAGE_DELAY(probe.batch_size)
            /\ \A i \in At("send") :
                  probe.log[i].result = "ok" =>
                     /\ i < Len(probe.log)
                     /\ probe.log[i + 1].ev = "sleep"
                     /\ probe.log[i + 1].value = DelayAt(i))
    /\ [][probe.fn = "send_broadcast" => probe'.delay >= probe.delay]_vars


\* the sum of the values of a tally
RECURSIVE TallySum(_, _)
TallySum(errors_by_type, kinds) ==
    IF kinds = {} THEN 0
    ELSE LET k == CHOOSE x \in kinds : TRUE
         IN errors_by_type[k] + TallySum(errors_by_type, kinds \ {k})

\* C36: in the statistics send_broadcast returns, the per-kind tally has for
\* each kind the number of recipients that failed with it, so its values sum
\* to the failed count: when the loop of a run is through its list, the values
\* of errors_by_type add up to failed_count.
C36_TallySumsToFailed ==
    \A r \in Runs :
        (run[r].pc = "send" /\ run[r].done = Len(run[r].users))
        => TallySum(run[r].errors_by_type, ErrorKinds) = run[r].failed_count


\* C37: within one tick a send failure of one due record does not keep the
\* other due records of the tick from being processed.  In every step in which
\* send_broadcast raises for the record a tick has claimed (and the write of
\* the except clause goes through), the record is set to error with its
\* message and the tick is at the next document of the list it fetched, with
\* the rest of the list unchanged; and a tick at a document of its list claims
\* it and then calls send_broadcast for it, unless the process is restarted or
\* the status write of the claim fails.
C37_FailureDoesNotStopTick ==
    [][\A t \in Ticks :
          /\ (/\ run[t].pc = "claimed"
              /\ run'[t].pc \notin {"claimed", "send"}
              /\ faults' = faults + 1
              /\ crashes' = crashes)
             => /\ broadcasts'[run[t].broadcast].status = "error"
                /\ broadcasts'[run[t].broadcast].error
                /\ Len(run[t].scheduled_broadcasts) > 1 =>
                      /\ run'[t].pc = "loop"
                      /\ run'[t].scheduled_broadcasts = Tail(run[t].scheduled_broadcasts)
          /\ (run[t].pc = "loop" /\ run'[t] # run[t] /\ crashes' = crashes
                 /\ faults' = faults)
             => /\ run'[t].pc = "claimed"
                /\ run'[t].broadcast = Head(run[t].scheduled_broadcasts).id
                /\ broadcasts'[run'[t].broadcast].status = "in_progress"
          /\ (run[t].pc = "claimed" /\ run'[t] # run[t] /\ crashes' = crashes)
             => dispatched'[run[t].broadcast] = dispatched[run[t].broadcast] + 1]_vars

\* the first of two due records ended in error because its send raised, and
\* the same tick has called send_broadcast for the second
C37_Witness ==
    \E t \in Ticks :
        /\ run[t].pc = "send"
        /\ run[t].broadcast = 2
        /\ Len(broadcasts) = 2
        /\ broadcasts[1].status = "error"
        /\ broadcasts[2].status = "in_progress"
        /\ dispatched[1] = 1 /\ dispatched[2] = 1
        /\ faults = 1


\* C38: add_user keeps at most one stored recipient per user_id under any
\* interleaving of concurrent calls for the same user, so no reader of the
\* store returns the same identity twice: no two documents of the users
\* collection have the same user_id.
C38_OneDocumentPerUser ==
    \A i, j \in 1..Len(users) :
        users[i].user_id = users[j].user_id => i = j


\* C39: when two approve_join_request calls for the same recipient interleave
\* at their suspension points, the join request is approved on the platform at
\* most once and at most one of the calls returns True.
C39_ApprovedOnce ==
    \A g, h \in Handlers :
        (/\ g # h
         /\ run[g].kind = "start" /\ run[h].kind = "start"
         /\ run[g].user_id = run[h].user_id)
        => /\ probe.approvals[run[g].user_id] <= 1
           /\ ~(run[g].returned = "True" /\ run[h].returned = "True")

\* C40: a recipient whose status is active is never set back to pending by a
\* new join request or a /start command.  No step of a handler takes a
\* document out of status active or takes its activated_at away, and the
\* update add_user writes for a user it found active has neither a status nor
\* an activated_at key.
C40_ActiveStaysActive ==
    [][/\ \A i \in 1..Len(users) :
             users[i].status = "active" =>
                /\ users'[i].user_id = users[i].user_id
                /\ users'[i].status = "active"
                /\ users'[i].activated_at = users[i].activated_at
       /\ \A h \in Handlers :
             (/\ run[h].pc = "write"
              /\ run'[h].pc # "write"
              /\ run[h].existing_user.status = "active")
             => /\ ~run'[h].inserted
                /\ run'[h].update_data.status = Absent
                /\ ~run'[h].update_data.activated_at
                /\ Len(users') = Len(users)]_vars

\* a join request and a /start for the active user 1 have both gone through
\* add_user, and the join request has put the user into the ledger
C40_Witness ==
    /\ run["h1"].kind = "join" /\ run["h1"].user_id = 1 /\ run["h1"].pc = "done"
    /\ run["h2"].kind = "start" /\ run["h2"].user_id = 1
    /\ run["h2"].pc \notin {"idle", "find_one", "write"}
    /\ run["h1"].existing_user.status = "active"
    /\ run["h2"].existing_user.status = "active"
    /\ HasEntry(pending_approvals, 1)
    /\ users[1].status = "active"

====
